---- MODULE Spec2Model ----
(***************************************************************************)
(* Rolling-paper message board: the message store, the mutation handlers   *)
(* and the live-update broadcaster of the four server variants found in    *)
(* the repository:                                                         *)
(*   "plain"  : src/server.ts            (log file, no passwords)          *)
(*   "cached" : src/unnamed/part_001:1-451    (log file + in-memory cache  *)
(*              + SSE)                                                     *)
(*   "db"     : src/unnamed/part_001:453-1116 (PostgreSQL + Redis + SSE)   *)
(*   "file"   : src/unnamed/part_001:1118-1433 (log file, passwords)       *)
(* The log-file handlers are synchronous, so each is one action.  The      *)
(* database handlers suspend at every await, so each is a sequence of      *)
(* steps that interleave with the steps of the other requests in flight.   *)
(***************************************************************************)
EXTENDS Integers, Sequences, FiniteSets, TLC

\* ------------------------------------------------------------------ bounds
\* The longest log (number of lines of all.jsonl) the model explores.
MaxMsgs == 2
\* The highest like count the model explores.
MaxLikes == 2
\* The longest group transcript (lines of <group>.txt) the model explores.
MaxTxtLines == 3
\* Database server: the most requests and notification handlers in flight.
MaxInFlight == 2
\* Database server: the most change notifications waiting for their handler.
MaxNotifications == 1
\* Client: the most stream errors one subscription meets.
MaxErrors == 2

\* ------------------------------------------------------------ input values
\* "" stands for a missing or empty JSON field (falsy in JavaScript).
Ids == {"m1", "m2"}
CreateAuthors == {"A"}
CreateContents == {"hi"}
UpdateAuthors == {"", "B"}
UpdateContents == {"", "yo"}
Groups == {"ESD", "FDM"}
Timestamps == {1, 2}
CreatePasswords == {"", "p1"}
Passwords == {"", "p1", "p2"}
Channels == {"c1"}
LogVariants == {"plain", "cached", "file"}

\* What the clients of one specification send: the ids, groups, timestamps,
\* likes and passwords of their creates (and whether they ask for private
\* messages), the authors and contents of their updates, how often they like
\* one message, and how many requests they keep in flight at once
Inputs(ids, gs, ts, cls, cps, privs, pws, uas, ucs, likeCap, inFlight) ==
  [ids |-> ids, groups |-> gs, timestamps |-> ts, createLikes |-> cls,
   createPasswords |-> cps,
   privates |-> privs, passwords |-> pws, updateAuthors |-> uas, updateContents |-> ucs,
   likeCap |-> likeCap, inFlight |-> inFlight]

\* The request bodies of POST /api/messages the clients u send: every
\* well-formed body, and for each required field one body that lacks it
CreateBodies(u) ==
  [id : u.ids, author : CreateAuthors, group : u.groups, content : CreateContents,
   timestamp : u.timestamps, likes : u.createLikes, password : u.createPasswords]
  \cup { [id |-> "", author |-> "A", group |-> "ESD", content |-> "hi", timestamp |-> 1, likes |-> 0,
          password |-> ""],
         [id |-> "m1", author |-> "", group |-> "ESD", content |-> "hi", timestamp |-> 1, likes |-> 0,
          password |-> ""],
         [id |-> "m1", author |-> "A", group |-> "", content |-> "hi", timestamp |-> 1, likes |-> 0,
          password |-> ""],
         [id |-> "m1", author |-> "A", group |-> "ESD", content |-> "", timestamp |-> 1, likes |-> 0,
          password |-> ""] }

NoHash == ""

VARIABLES
  variant,        \* which server is running
  file,           \* all.jsonl: the messages, one per line, in line order
  txt,            \* <group>.txt: the lines of each group transcript (<<>>: no file)
  messagesCache,  \* cached server: the in-memory array
  sseClients,     \* the broadcast set
  chan,           \* per channel: connection state and the last data event received
  resp,           \* the HTTP response of the last completed request
  table,          \* database server: the rows of table messages
  redisAll,       \* Redis key messages:all: <<>> (absent) or <<list>>
  redisMsg,       \* Redis keys message:{id}: <<>> (absent) or <<message>>
  reqs,           \* database server: the requests and handlers in flight
  notifications   \* NOTIFY messages_changed not yet handed to the listener

logVars == <<file, txt, messagesCache>>
dbVars == <<table, redisAll, redisMsg, reqs, notifications>>
vars == <<variant, file, txt, messagesCache, sseClients, chan, resp,
          table, redisAll, redisMsg, reqs, notifications>>

\* ----------------------------------------------------------- array helpers
RECURSIVE Reverse(_)
\* Array.prototype.reverse
Reverse(s) == IF s = <<>> THEN <<>> ELSE Append(Reverse(Tail(s)), Head(s))

\* Array.prototype.findIndex(msg => msg.id === id), 1-based; 0 stands for -1
findIndex(messages, id) ==
  IF \E i \in 1..Len(messages) : messages[i].id = id
  THEN CHOOSE i \in 1..Len(messages) :
         /\ messages[i].id = id
         /\ \A j \in 1..(i - 1) : messages[j].id # id
  ELSE 0

\* Array.prototype.splice(index, 1)
splice(messages, idx) ==
  [i \in 1..(Len(messages) - 1) |-> IF i < idx THEN messages[i] ELSE messages[i + 1]]

\* Array.prototype.map over a sequence
Map(s, F(_)) == [i \in 1..Len(s) |-> F(s[i])]

\* ---------------------------------------------------------------- passwords
\* sha256 hex digest: deterministic, distinct passwords give distinct digests,
\* and a digest is never empty
hashPassword(password) ==
  CASE password = "p1" -> "h1"
    [] password = "p2" -> "h2"
    [] OTHER -> "h0"

verifyPassword(password, hash) == hashPassword(password) = hash

\* ------------------------------------------------------------- sanitizing
\* ({ passwordHash, ...msg }) => msg
StripHash(m) == [f \in (DOMAIN m) \ {"passwordHash"} |-> m[f]]

sanitizedMessages(messages) == Map(messages, StripHash)

\* ------------------------------------------------------------ the log file
\* readMessagesFromFile / readMessages: parse the lines, newest first
readMessagesFromFile == Reverse(file)

\* updateMessages: reverses the array it is given IN PLACE and writes it, one
\* line per message.  The value is the array after the call, which is also
\* the new line order of the file.
updateMessages(messages) == Reverse(messages)

\* ------------------------------------------------------------- transcripts
\* `[${message.author}]: ${message.content}`
TxtLine(m) == <<m.author, m.content>>
\* server.ts: `[${timestamp}] ${message.author}: ${message.content}`
PlainTxtLine(m) == <<m.timestamp, m.author, m.content>>

\* saveToGroupTxt: append one line to the group's file (creating it)
saveToGroupTxt(t, m, line) == [t EXCEPT ![m.group] = Append(@, line)]

OfGroup(messages, g) == SelectSeq(messages, LAMBDA m : m.group = g)

\* rebuildGroupTxtFiles over the array `messages`: every group that has a
\* message gets its file rewritten with that group's messages reversed;
\* the file of a group without messages is not touched
rebuildGroupTxtFiles(t, messages) ==
  [g \in DOMAIN t |->
     IF OfGroup(messages, g) = <<>> THEN t[g]
     ELSE Map(Reverse(OfGroup(messages, g)), TxtLine)]

\* --------------------------------------------------------------- broadcast
\* broadcastUpdate (cached server): write the sanitized cache to every client
\* of the broadcast set
broadcastUpdate(ch, clients, messages) ==
  [c \in DOMAIN ch |->
     IF c \in clients
     THEN [ch[c] EXCEPT !.last = sanitizedMessages(messages)]
     ELSE ch[c]]

\* ---------------------------------------------------------------- responses
Response(op, id, status, body, pushed) ==
  [op |-> op, id |-> id, status |-> status, body |-> body, pushed |-> pushed]

NoResponse == Response("none", "", 0, <<>>, {})

\* The message a client posts: the JSON body without its password
NewMessage(id, author, group, content, timestamp, likes) ==
  [id |-> id, author |-> author, group |-> group, content |-> content,
   timestamp |-> timestamp, likes |-> likes]

WithHash(m, password) ==
  [f \in (DOMAIN m) \cup {"passwordHash"} |->
     IF f = "passwordHash"
     THEN (IF password # "" THEN hashPassword(password) ELSE NoHash)
     ELSE m[f]]

\* -------------------------------------------------------------------- Init
\* A free slot of the requests in flight
Idle ==
  [op |-> "idle", pc |-> "", phase |-> 0, id |-> "", password |-> "", author |-> "",
   content |-> "", got |-> <<>>]

InitWith(variants) ==
  /\ variant \in variants
  /\ file = <<>>
  /\ txt = [g \in Groups |-> <<>>]
  /\ messagesCache = <<>>
  /\ sseClients = {}
  /\ chan = [c \in Channels |-> [st |-> "idle", last |-> <<>>]]
  /\ resp = NoResponse
  /\ table = {}
  /\ redisAll = <<>>
  /\ redisMsg = [id \in Ids |-> <<>>]
  /\ reqs = [s \in 1..MaxInFlight |-> Idle]
  /\ notifications = 0

\* ================================================================ plain
\* src/server.ts

PlainGetMessages ==
  /\ variant = "plain"
  /\ resp' = Response("list", "", 200, readMessagesFromFile, {})
  /\ UNCHANGED <<dbVars, variant, file, txt, messagesCache, sseClients, chan>>

PlainCreate(id, author, group, content, timestamp, likes) ==
  /\ variant = "plain"
  /\ LET message == NewMessage(id, author, group, content, timestamp, likes) IN
     IF id = "" \/ author = "" \/ group = "" \/ content = ""
     THEN /\ resp' = Response("create", id, 400, <<>>, {})
          /\ UNCHANGED <<file, txt>>
     ELSE /\ Len(file) < MaxMsgs
          /\ Len(txt[group]) < MaxTxtLines
          /\ file' = Append(file, message)
          /\ txt' = saveToGroupTxt(txt, message, PlainTxtLine(message))
          /\ resp' = Response("create", id, 201, <<message>>, {})
  /\ UNCHANGED <<dbVars, variant, messagesCache, sseClients, chan>>

PlainLike(id, likeCap) ==
  /\ variant = "plain"
  /\ LET messages == readMessagesFromFile
         messageIndex == findIndex(messages, id)
     IN
     IF messageIndex = 0
     THEN /\ resp' = Response("like", id, 404, <<>>, {})
          /\ UNCHANGED file
     ELSE /\ messages[messageIndex].likes < likeCap
          /\ LET liked == [messages EXCEPT ![messageIndex].likes = @ + 1]
                 after == updateMessages(liked)
             IN /\ file' = after
                /\ resp' = Response("like", id, 200, <<after[messageIndex]>>, {})
  /\ UNCHANGED <<dbVars, variant, txt, messagesCache, sseClients, chan>>

PlainNext(u) ==
  \/ PlainGetMessages
  \/ \E b \in CreateBodies(u) :
       /\ b.password = ""
       /\ PlainCreate(b.id, b.author, b.group, b.content, b.timestamp, b.likes)
  \/ \E id \in u.ids : PlainLike(id, u.likeCap)

\* ================================================================= file
\* src/unnamed/part_001:1118-1433: log file, passwords, no cache, no SSE

FileGetMessages ==
  /\ variant = "file"
  /\ resp' = Response("list", "", 200, sanitizedMessages(readMessagesFromFile), {})
  /\ UNCHANGED <<dbVars, variant, file, txt, messagesCache, sseClients, chan>>

FileCreate(id, author, group, content, timestamp, likes, password) ==
  /\ variant = "file"
  /\ LET message == WithHash(NewMessage(id, author, group, content, timestamp, likes), password) IN
     IF id = "" \/ author = "" \/ group = "" \/ content = ""
     THEN /\ resp' = Response("create", id, 400, <<>>, {})
          /\ UNCHANGED <<file, txt>>
     ELSE /\ Len(file) < MaxMsgs
          /\ Len(txt[group]) < MaxTxtLines
          /\ file' = Append(file, message)
          /\ txt' = saveToGroupTxt(txt, message, TxtLine(message))
          /\ resp' = Response("create", id, 201, <<StripHash(message)>>, {})
  /\ UNCHANGED <<dbVars, variant, messagesCache, sseClients, chan>>

FileLike(id, likeCap) ==
  /\ variant = "file"
  /\ LET messages == readMessagesFromFile
         messageIndex == findIndex(messages, id)
     IN
     IF messageIndex = 0
     THEN /\ resp' = Response("like", id, 404, <<>>, {})
          /\ UNCHANGED file
     ELSE /\ messages[messageIndex].likes < likeCap
          /\ LET liked == [messages EXCEPT ![messageIndex].likes = @ + 1]
                 after == updateMessages(liked)
             IN /\ file' = after
                /\ resp' = Response("like", id, 200, <<StripHash(after[messageIndex])>>, {})
  /\ UNCHANGED <<dbVars, variant, txt, messagesCache, sseClients, chan>>

FileVerify(id, password) ==
  /\ variant = "file"
  /\ LET messages == readMessagesFromFile
         messageIndex == findIndex(messages, id)
     IN
     resp' = IF password = "" THEN Response("verify", id, 400, <<>>, {})
             ELSE IF messageIndex = 0 THEN Response("verify", id, 404, <<>>, {})
             ELSE IF messages[messageIndex].passwordHash = NoHash
                  THEN Response("verify", id, 403, <<>>, {})
             ELSE Response("verify", id, 200,
                    <<[valid |-> verifyPassword(password, messages[messageIndex].passwordHash)]>>, {})
  /\ UNCHANGED <<dbVars, variant, file, txt, messagesCache, sseClients, chan>>

\* if (author) message.author = author; if (content) message.content = content
ApplyUpdate(message, author, content) ==
  [message EXCEPT !.author = IF author # "" THEN author ELSE @,
                  !.content = IF content # "" THEN content ELSE @]

\* The four checks of update and delete, in the order the handlers make them;
\* 0 when they all pass
AuthStatus(messages, messageIndex, password) ==
  IF password = "" THEN 400
  ELSE IF messageIndex = 0 THEN 404
  ELSE IF messages[messageIndex].passwordHash = NoHash THEN 403
  ELSE IF ~verifyPassword(password, messages[messageIndex].passwordHash) THEN 401
  ELSE 0

FileUpdate(id, password, author, content) ==
  /\ variant = "file"
  /\ LET messages == readMessagesFromFile
         messageIndex == findIndex(messages, id)
         status == AuthStatus(messages, messageIndex, password)
     IN
     IF status # 0
     THEN /\ resp' = Response("update", id, status, <<>>, {})
          /\ UNCHANGED <<file, txt>>
     ELSE LET message == ApplyUpdate(messages[messageIndex], author, content)
              after == updateMessages([messages EXCEPT ![messageIndex] = message])
          IN /\ file' = after
             \* rebuildGroupTxtFiles reads the file just written
             /\ txt' = rebuildGroupTxtFiles(txt, Reverse(after))
             /\ resp' = Response("update", id, 200, <<StripHash(message)>>, {})
  /\ UNCHANGED <<dbVars, variant, messagesCache, sseClients, chan>>

FileDelete(id, password) ==
  /\ variant = "file"
  /\ LET messages == readMessagesFromFile
         messageIndex == findIndex(messages, id)
         status == AuthStatus(messages, messageIndex, password)
     IN
     IF status # 0
     THEN /\ resp' = Response("delete", id, status, <<>>, {})
          /\ UNCHANGED <<file, txt>>
     ELSE LET after == updateMessages(splice(messages, messageIndex))
          IN /\ file' = after
             /\ txt' = rebuildGroupTxtFiles(txt, Reverse(after))
             /\ resp' = Response("delete", id, 200, <<>>, {})
  /\ UNCHANGED <<dbVars, variant, messagesCache, sseClients, chan>>

FileNext(u) ==
  \/ FileGetMessages
  \/ \E b \in CreateBodies(u) :
       FileCreate(b.id, b.author, b.group, b.content, b.timestamp, b.likes, b.password)
  \/ \E id \in u.ids : FileLike(id, u.likeCap)
  \/ \E id \in u.ids, p \in u.passwords : FileVerify(id, p)
  \/ \E id \in u.ids, p \in u.passwords, a \in u.updateAuthors, c \in u.updateContents :
       FileUpdate(id, p, a, c)
  \/ \E id \in u.ids, p \in u.passwords : FileDelete(id, p)

\* =============================================================== cached
\* src/unnamed/part_001:1-451: log file, in-memory cache, SSE.  getMessages
\* returns the cache array itself, so what a handler does to `messages` it
\* does to messagesCache.

CachedConnect(c) ==
  /\ variant = "cached"
  /\ chan[c].st # "open"
  /\ chan' = [chan EXCEPT ![c] = [st |-> "open", last |-> sanitizedMessages(messagesCache)]]
  /\ sseClients' = sseClients \cup {c}
  /\ resp' = Response("events", "", 200, <<>>, {c})
  /\ UNCHANGED <<dbVars, variant, file, txt, messagesCache>>

\* req.on('close')
CachedClose(c) ==
  /\ variant = "cached"
  /\ chan[c].st = "open"
  /\ chan' = [chan EXCEPT ![c] = [st |-> "closed", last |-> <<>>]]
  /\ sseClients' = sseClients \ {c}
  /\ UNCHANGED <<dbVars, variant, file, txt, messagesCache, resp>>

CachedGetMessages ==
  /\ variant = "cached"
  /\ resp' = Response("list", "", 200, sanitizedMessages(messagesCache), {})
  /\ UNCHANGED <<dbVars, variant, file, txt, messagesCache, sseClients, chan>>

CachedCreateUnvalidated(id, author, group, content, timestamp, likes, password) ==
  /\ variant = "cached"
  /\ LET message == WithHash(NewMessage(id, author, group, content, timestamp, likes), password) IN
     /\ Len(file) < MaxMsgs
     /\ group \in Groups
     /\ Len(txt[group]) < MaxTxtLines
     /\ file' = Append(file, message)
     /\ txt' = saveToGroupTxt(txt, message, TxtLine(message))
     /\ messagesCache' = <<message>> \o messagesCache
     /\ chan' = broadcastUpdate(chan, sseClients, messagesCache')
     /\ resp' = Response("create", id, 201, <<StripHash(message)>>, sseClients)
  /\ UNCHANGED <<dbVars, variant, sseClients>>
CachedCreate(id, author, group, content, timestamp, likes, password) ==
  /\ variant = "cached"
  /\ LET message == WithHash(NewMessage(id, author, group, content, timestamp, likes), password) IN
     IF id = "" \/ author = "" \/ group = "" \/ content = ""
     THEN /\ resp' = Response("create", id, 400, <<>>, {})
          /\ UNCHANGED <<file, txt, messagesCache, chan>>
     ELSE /\ Len(file) < MaxMsgs
          /\ Len(txt[group]) < MaxTxtLines
          /\ file' = Append(file, message)
          /\ txt' = saveToGroupTxt(txt, message, TxtLine(message))
          \* messagesCache.unshift(message)
          /\ messagesCache' = <<message>> \o messagesCache
          /\ chan' = broadcastUpdate(chan, sseClients, messagesCache')
          /\ resp' = Response("create", id, 201, <<StripHash(message)>>, sseClients)
  /\ UNCHANGED <<dbVars, variant, sseClients>>

CachedLike(id, likeCap) ==
  /\ variant = "cached"
  /\ LET messages == messagesCache
         messageIndex == findIndex(messages, id)
     IN
     IF messageIndex = 0
     THEN /\ resp' = Response("like", id, 404, <<>>, {})
          /\ UNCHANGED <<file, messagesCache, chan>>
     ELSE /\ messages[messageIndex].likes < likeCap
          /\ LET liked == [messages EXCEPT ![messageIndex].likes = @ + 1]
                 after == updateMessages(liked)
             IN /\ file' = after
                /\ messagesCache' = after
                /\ chan' = broadcastUpdate(chan, sseClients, after)
                /\ resp' = Response("like", id, 200, <<StripHash(after[messageIndex])>>, sseClients)
  /\ UNCHANGED <<dbVars, variant, txt, sseClients>>

CachedVerify(id, password) ==
  /\ variant = "cached"
  /\ LET messages == messagesCache
         messageIndex == findIndex(messages, id)
     IN
     resp' = IF password = "" THEN Response("verify", id, 400, <<>>, {})
             ELSE IF messageIndex = 0 THEN Response("verify", id, 404, <<>>, {})
             ELSE IF messages[messageIndex].passwordHash = NoHash
                  THEN Response("verify", id, 403, <<>>, {})
             ELSE Response("verify", id, 200,
                    <<[valid |-> verifyPassword(password, messages[messageIndex].passwordHash)]>>, {})
  /\ UNCHANGED <<dbVars, variant, file, txt, messagesCache, sseClients, chan>>

CachedUpdate(id, password, author, content) ==
  /\ variant = "cached"
  /\ LET messages == messagesCache
         messageIndex == findIndex(messages, id)
         status == AuthStatus(messages, messageIndex, password)
     IN
     IF status # 0
     THEN /\ resp' = Response("update", id, status, <<>>, {})
          /\ UNCHANGED <<file, txt, messagesCache, chan>>
     ELSE LET message == ApplyUpdate(messages[messageIndex], author, content)
              after == updateMessages([messages EXCEPT ![messageIndex] = message])
          IN /\ file' = after
             /\ messagesCache' = after
             \* rebuildGroupTxtFiles reads getMessages(): the cache, as reversed
             /\ txt' = rebuildGroupTxtFiles(txt, after)
             /\ chan' = broadcastUpdate(chan, sseClients, after)
             /\ resp' = Response("update", id, 200, <<StripHash(message)>>, sseClients)
  /\ UNCHANGED <<dbVars, variant, sseClients>>

CachedDelete(id, password) ==
  /\ variant = "cached"
  /\ LET messages == messagesCache
         messageIndex == findIndex(messages, id)
         status == AuthStatus(messages, messageIndex, password)
     IN
     IF status # 0
     THEN /\ resp' = Response("delete", id, status, <<>>, {})
          /\ UNCHANGED <<file, txt, messagesCache, chan>>
     ELSE LET after == updateMessages(splice(messagesCache, messageIndex))
          IN /\ file' = after
             /\ messagesCache' = after
             /\ txt' = rebuildGroupTxtFiles(txt, after)
             /\ chan' = broadcastUpdate(chan, sseClients, after)
             /\ resp' = Response("delete", id, 200, <<>>, sseClients)
  /\ UNCHANGED <<dbVars, variant, sseClients>>

CachedNext(u) ==
  \/ \E c \in Channels : CachedConnect(c)
  \/ \E c \in Channels : CachedClose(c)
  \/ CachedGetMessages
  \/ \E b \in CreateBodies(u) :
       CachedCreate(b.id, b.author, b.group, b.content, b.timestamp, b.likes, b.password)
  \/ \E id \in u.ids : CachedLike(id, u.likeCap)
  \/ \E id \in u.ids, p \in u.passwords : CachedVerify(id, p)
  \/ \E id \in u.ids, p \in u.passwords, a \in u.updateAuthors, c \in u.updateContents :
       CachedUpdate(id, p, a, c)
  \/ \E id \in u.ids, p \in u.passwords : CachedDelete(id, p)

\* =================================================================== db
\* src/unnamed/part_001:453-1116: PostgreSQL table, Redis cache, SSE fed by
\* LISTEN/NOTIFY.  Every await of a handler is one step: the command takes
\* effect at Redis or PostgreSQL and the handler runs on to its next await
\* or to its response.

\* The message POST /api/messages builds from a body: { ...messageData,
\* isPrivate: isPrivate || false } and, with a password, its hash
DbNewMessage(b, isPrivate) ==
  [id |-> b.id, author |-> b.author, group |-> b.group, content |-> b.content,
   timestamp |-> b.timestamp, likes |-> b.likes,
   passwordHash |-> IF b.password # "" THEN hashPassword(b.password) ELSE NoHash,
   isPrivate |-> isPrivate]

\* messages.map(({ passwordHash, ...msg }) => msg.isPrivate ? { ...msg, content: '' } : msg)
HidePrivateNever(m) == StripHash(m)
HidePrivate(m) ==
  IF m.isPrivate THEN [StripHash(m) EXCEPT !.content = ""] ELSE StripHash(m)

dbSanitizedMessages(messages) == Map(messages, HidePrivate)

\* SELECT ... FROM messages ORDER BY timestamp DESC: the rows in any order
\* that is newest first (rows of equal timestamp come in either order)
RowsNewestFirst(rows) ==
  { l \in [1..Cardinality(rows) -> rows] :
      /\ \A i, j \in 1..Cardinality(rows) : i # j => l[i] # l[j]
      /\ \A i, j \in 1..Cardinality(rows) : i < j => l[i].timestamp >= l[j].timestamp }

\* SELECT ... FROM messages WHERE id = $1: <<>> or <<row>>
RowById(id) ==
  IF \E r \in table : r.id = id THEN <<CHOOSE r \in table : r.id = id>> ELSE <<>>

FreeSlot == CHOOSE s \in 1..MaxInFlight :
              reqs[s] = Idle /\ \A t \in 1..(s - 1) : reqs[t] # Idle

\* A request enters: its handler runs to its first await
Start(r, inFlight) ==
  /\ Cardinality({s \in 1..MaxInFlight : reqs[s] # Idle}) < inFlight
  /\ reqs' = [reqs EXCEPT ![FreeSlot] = r]

Request(op, pc, id, password, author, content, got) ==
  [op |-> op, pc |-> pc, phase |-> 1, id |-> id, password |-> password,
   author |-> author, content |-> content, got |-> got]

\* The handler of slot s answers and ends
Finish(s, r) ==
  /\ reqs' = [reqs EXCEPT ![s] = Idle]
  /\ resp' = r

\* The handler of slot s goes on to its next await
Goto(s, pc) ==
  /\ reqs' = [reqs EXCEPT ![s].pc = pc]
  /\ UNCHANGED resp

\* The checks of update and delete on what getMessageById returned
DbAuthStatusPasswordFirst(got, password) ==
  IF got = <<>> THEN 404
  ELSE IF ~verifyPassword(password, got[1].passwordHash) THEN 401
  ELSE IF got[1].passwordHash = NoHash THEN 403
  ELSE 0
DbAuthStatus(got, password) ==
  IF got = <<>> THEN 404
  ELSE IF got[1].passwordHash = NoHash THEN 403
  ELSE IF ~verifyPassword(password, got[1].passwordHash) THEN 401
  ELSE 0

\* POST /api/messages/:id/content, once getMessageById has returned
ContentResponse(id, got, password) ==
  IF got = <<>> THEN Response("content", id, 404, <<>>, {})
  ELSE IF ~got[1].isPrivate
       THEN Response("content", id, 200, <<[content |-> got[1].content]>>, {})
  ELSE IF got[1].passwordHash = NoHash THEN Response("content", id, 403, <<>>, {})
  ELSE IF ~verifyPassword(password, got[1].passwordHash)
       THEN Response("content", id, 401, <<>>, {})
  ELSE Response("content", id, 200, <<[content |-> got[1].content]>>, {})

\* POST /api/messages/:id/verify, once getMessageById has returned
VerifyResponseAlwaysValid(id, got, password) ==
  IF got = <<>> THEN Response("verify", id, 404, <<>>, {})
  ELSE IF got[1].passwordHash = NoHash THEN Response("verify", id, 403, <<>>, {})
  ELSE Response("verify", id, 200, <<[valid |-> TRUE]>>, {})
VerifyResponse(id, got, password) ==
  IF got = <<>> THEN Response("verify", id, 404, <<>>, {})
  ELSE IF got[1].passwordHash = NoHash THEN Response("verify", id, 403, <<>>, {})
  ELSE Response("verify", id, 200,
         <<[valid |-> verifyPassword(password, got[1].passwordHash)]>>, {})

\* const { passwordHash, ...sanitizedMessage } = updatedMessage!; a null
\* updatedMessage throws, and the handler's catch answers 500
UpdatedResponse(op, id, got) ==
  IF got = <<>> THEN Response(op, id, 500, <<>>, {})
  ELSE Response(op, id, 200, <<StripHash(got[1])>>, {})

\* What a handler does when its getMessageById returns `got`
AfterGet(s, got) ==
  LET r == reqs[s] IN
  CASE r.op = "verify" -> Finish(s, VerifyResponse(r.id, got, r.password))
    [] r.op = "content" -> Finish(s, ContentResponse(r.id, got, r.password))
    [] r.op = "like" /\ r.phase = 1 ->
         IF got = <<>> THEN Finish(s, Response("like", r.id, 404, <<>>, {}))
         ELSE Goto(s, "like.pg")
    [] r.op \in {"update", "delete"} /\ r.phase = 1 ->
         IF DbAuthStatus(got, r.password) # 0
         THEN Finish(s, Response(r.op, r.id, DbAuthStatus(got, r.password), <<>>, {}))
         ELSE Goto(s, IF r.op = "update" THEN "update.pg" ELSE "delete.pg")
    [] r.op \in {"like", "update"} /\ r.phase = 2 ->
         Finish(s, UpdatedResponse(r.op, r.id, got))

\* getMessageById: redisClient.get(`message:${id}`)
DbGetRedis(s) ==
  /\ variant = "db"
  /\ reqs[s].pc = "get.redis"
  /\ IF redisMsg[reqs[s].id] # <<>>
     THEN AfterGet(s, redisMsg[reqs[s].id])
     ELSE Goto(s, "get.pg")
  /\ UNCHANGED <<logVars, variant, sseClients, chan, table, redisAll, redisMsg, notifications>>

\* getMessageById: SELECT ... WHERE id = $1
DbGetPg(s) ==
  /\ variant = "db"
  /\ reqs[s].pc = "get.pg"
  /\ IF RowById(reqs[s].id) = <<>>
     THEN AfterGet(s, <<>>)
     ELSE /\ reqs' = [reqs EXCEPT ![s].pc = "get.setex", ![s].got = RowById(reqs[s].id)]
          /\ UNCHANGED resp
  /\ UNCHANGED <<logVars, variant, sseClients, chan, table, redisAll, redisMsg, notifications>>

\* getMessageById: redisClient.setEx(`message:${id}`, 300, ...)
DbGetSetEx(s) ==
  /\ variant = "db"
  /\ reqs[s].pc = "get.setex"
  /\ redisMsg' = [redisMsg EXCEPT ![reqs[s].id] = reqs[s].got]
  /\ AfterGet(s, reqs[s].got)
  /\ UNCHANGED <<logVars, variant, sseClients, chan, table, redisAll, notifications>>

\* broadcastUpdate's writes: the clients of the broadcast set whose
\* connection is still open receive the data
dbBroadcast(ch, clients, messages) ==
  [c \in DOMAIN ch |->
     IF c \in clients /\ ch[c].st = "open"
     THEN [ch[c] EXCEPT !.last = dbSanitizedMessages(messages)]
     ELSE ch[c]]

\* What a handler does when its getMessages returns `messages`
AfterAll(s, messages) ==
  LET r == reqs[s] IN
  CASE r.op = "list" ->
         /\ Finish(s, Response("list", "", 200, dbSanitizedMessages(messages), {}))
         /\ UNCHANGED <<chan, sseClients>>
    [] r.op = "events" ->
         \* res.write(initial data); sseClients.add(res); req.on('close', ...)
         /\ chan' = [chan EXCEPT ![r.id] =
                       IF @.st = "connecting"
                       THEN [st |-> "open", last |-> dbSanitizedMessages(messages)]
                       ELSE @]
         /\ sseClients' = sseClients \cup {r.id}
         /\ Finish(s, Response("events", "", 200, <<>>, {r.id}))
    [] r.op = "notify" ->
         /\ chan' = dbBroadcast(chan, sseClients, messages)
         /\ reqs' = [reqs EXCEPT ![s] = Idle]
         /\ UNCHANGED <<resp, sseClients>>

\* getMessages: redisClient.get('messages:all')
DbAllRedis(s) ==
  /\ variant = "db"
  /\ reqs[s].pc = "all.redis"
  /\ IF redisAll # <<>>
     THEN AfterAll(s, redisAll[1])
     ELSE Goto(s, "all.pg") /\ UNCHANGED <<chan, sseClients>>
  /\ UNCHANGED <<logVars, variant, table, redisAll, redisMsg, notifications>>

\* getMessages: SELECT ... ORDER BY timestamp DESC
DbAllPg(s) ==
  /\ variant = "db"
  /\ reqs[s].pc = "all.pg"
  /\ \E l \in RowsNewestFirst(table) :
       reqs' = [reqs EXCEPT ![s].pc = "all.setex", ![s].got = l]
  /\ UNCHANGED <<logVars, variant, sseClients, chan, resp, table, redisAll, redisMsg,
                 notifications>>

\* getMessages: redisClient.setEx('messages:all', 60, ...)
DbAllSetEx(s) ==
  /\ variant = "db"
  /\ reqs[s].pc = "all.setex"
  /\ redisAll' = <<reqs[s].got>>
  /\ AfterAll(s, reqs[s].got)
  /\ UNCHANGED <<logVars, variant, table, redisMsg, notifications>>

\* The keys' TTL (60 s and 300 s) runs out
DbExpireAll ==
  /\ variant = "db"
  /\ redisAll # <<>>
  /\ redisAll' = <<>>
  /\ UNCHANGED <<logVars, variant, sseClients, chan, resp, table, redisMsg, reqs, notifications>>

DbExpireMsg(id) ==
  /\ variant = "db"
  /\ redisMsg[id] # <<>>
  /\ redisMsg' = [redisMsg EXCEPT ![id] = <<>>]
  /\ UNCHANGED <<logVars, variant, sseClients, chan, resp, table, redisAll, reqs, notifications>>

\* GET /api/messages
DbGetMessages(n) ==
  /\ variant = "db"
  /\ Start(Request("list", "all.redis", "", "", "", "", <<>>), n)
  /\ UNCHANGED <<logVars, variant, sseClients, chan, resp, table, redisAll, redisMsg,
                 notifications>>

\* GET /api/events
DbConnect(c, n) ==
  /\ variant = "db"
  /\ chan[c].st \in {"idle", "closed"}
  /\ c \notin sseClients
  /\ \A s \in 1..MaxInFlight : ~(reqs[s].op = "events" /\ reqs[s].id = c)
  /\ chan' = [chan EXCEPT ![c] = [st |-> "connecting", last |-> <<>>]]
  /\ Start(Request("events", "all.redis", c, "", "", "", <<>>), n)
  /\ UNCHANGED <<logVars, variant, sseClients, resp, table, redisAll, redisMsg, notifications>>

\* The client goes away.  The 'close' listener exists only once the handler
\* has passed its await of getMessages.
DbClose(c) ==
  /\ variant = "db"
  /\ chan[c].st \in {"connecting", "open"}
  /\ chan' = [chan EXCEPT ![c] = [st |-> "closed", last |-> <<>>]]
  /\ sseClients' = IF chan[c].st = "open" THEN sseClients \ {c} ELSE sseClients
  /\ UNCHANGED <<logVars, variant, resp, table, redisAll, redisMsg, reqs, notifications>>

\* POST /api/messages
DbCreateAnyPrivate(b, isPrivate, n) ==
  /\ variant = "db"
  /\ IF b.id = "" \/ b.author = "" \/ b.group = "" \/ b.content = ""
     THEN resp' = Response("create", b.id, 400, <<>>, {}) /\ UNCHANGED reqs
     ELSE /\ Start(Request("create", "create.pg", b.id, "", "", "",
                           <<DbNewMessage(b, isPrivate)>>), n)
          /\ UNCHANGED resp
  /\ UNCHANGED <<logVars, variant, sseClients, chan, table, redisAll, redisMsg, notifications>>
DbCreate(b, isPrivate, n) ==
  /\ variant = "db"
  /\ IF b.id = "" \/ b.author = "" \/ b.group = "" \/ b.content = ""
     THEN resp' = Response("create", b.id, 400, <<>>, {}) /\ UNCHANGED reqs
     ELSE IF isPrivate /\ b.password = ""
     THEN resp' = Response("create", b.id, 400, <<>>, {}) /\ UNCHANGED reqs
     ELSE /\ Start(Request("create", "create.pg", b.id, "", "", "",
                           <<DbNewMessage(b, isPrivate)>>), n)
          /\ UNCHANGED resp
  /\ UNCHANGED <<logVars, variant, sseClients, chan, table, redisAll, redisMsg, notifications>>

\* addMessage: INSERT INTO messages; id is the primary key, so a second row
\* of the same id is refused and the handler's catch answers 500.  The
\* insert trigger notifies.
DbCreatePg(s) ==
  /\ variant = "db"
  /\ reqs[s].pc = "create.pg"
  /\ IF RowById(reqs[s].id) # <<>>
     THEN /\ Finish(s, Response("create", reqs[s].id, 500, <<>>, {}))
          /\ UNCHANGED <<table, notifications>>
     ELSE /\ Cardinality(table) < MaxMsgs
          /\ notifications < MaxNotifications
          /\ table' = table \cup {reqs[s].got[1]}
          /\ notifications' = notifications + 1
          /\ Goto(s, "create.del")
  /\ UNCHANGED <<logVars, variant, sseClients, chan, redisAll, redisMsg>>

\* addMessage: invalidateCache(), then the 201 response
DbCreateDel(s) ==
  /\ variant = "db"
  /\ reqs[s].pc = "create.del"
  /\ redisAll' = <<>>
  /\ Finish(s, Response("create", reqs[s].id, 201, <<HidePrivate(reqs[s].got[1])>>, {}))
  /\ UNCHANGED <<logVars, variant, sseClients, chan, table, redisMsg, notifications>>

\* POST /api/messages/:id/like
DbLike(id, n) ==
  /\ variant = "db"
  /\ Start(Request("like", "get.redis", id, "", "", "", <<>>), n)
  /\ UNCHANGED <<logVars, variant, sseClients, chan, resp, table, redisAll, redisMsg,
                 notifications>>

\* likeMessage: UPDATE messages SET likes = likes + 1 WHERE id = $1
DbLikePg(s, likeCap) ==
  /\ variant = "db"
  /\ reqs[s].pc = "like.pg"
  /\ IF RowById(reqs[s].id) = <<>>
     THEN UNCHANGED <<table, notifications>>
     ELSE LET row == RowById(reqs[s].id)[1] IN
          /\ row.likes < likeCap
          /\ notifications < MaxNotifications
          /\ table' = (table \ {row}) \cup {[row EXCEPT !.likes = @ + 1]}
          /\ notifications' = notifications + 1
  /\ Goto(s, "like.delAll")
  /\ UNCHANGED <<logVars, variant, sseClients, chan, redisAll, redisMsg>>

\* POST /api/messages/:id/verify
DbVerify(id, password, n) ==
  /\ variant = "db"
  /\ IF password = ""
     THEN resp' = Response("verify", id, 400, <<>>, {}) /\ UNCHANGED reqs
     ELSE Start(Request("verify", "get.redis", id, password, "", "", <<>>), n) /\ UNCHANGED resp
  /\ UNCHANGED <<logVars, variant, sseClients, chan, table, redisAll, redisMsg, notifications>>

\* POST /api/messages/:id/content
DbContent(id, password, n) ==
  /\ variant = "db"
  /\ IF password = ""
     THEN resp' = Response("content", id, 400, <<>>, {}) /\ UNCHANGED reqs
     ELSE Start(Request("content", "get.redis", id, password, "", "", <<>>), n) /\ UNCHANGED resp
  /\ UNCHANGED <<logVars, variant, sseClients, chan, table, redisAll, redisMsg, notifications>>

\* PUT /api/messages/:id
DbUpdate(id, password, author, content, n) ==
  /\ variant = "db"
  /\ IF password = ""
     THEN resp' = Response("update", id, 400, <<>>, {}) /\ UNCHANGED reqs
     ELSE /\ Start(Request("update", "get.redis", id, password, author, content, <<>>), n)
          /\ UNCHANGED resp
  /\ UNCHANGED <<logVars, variant, sseClients, chan, table, redisAll, redisMsg, notifications>>

\* updateMessage: UPDATE messages SET <the supplied fields> WHERE id = $n.
\* With neither field supplied the statement is `UPDATE messages SET  WHERE
\* id = $1`, which PostgreSQL refuses: the handler's catch answers 500.
DbUpdatePg(s) ==
  /\ variant = "db"
  /\ reqs[s].pc = "update.pg"
  /\ IF reqs[s].author = "" /\ reqs[s].content = ""
     THEN /\ Finish(s, Response("update", reqs[s].id, 500, <<>>, {}))
          /\ UNCHANGED <<table, notifications>>
     ELSE /\ IF RowById(reqs[s].id) = <<>>
             THEN UNCHANGED <<table, notifications>>
             ELSE LET row == RowById(reqs[s].id)[1] IN
                  /\ notifications < MaxNotifications
                  /\ table' = (table \ {row})
                                \cup {ApplyUpdate(row, reqs[s].author, reqs[s].content)}
                  /\ notifications' = notifications + 1
          /\ Goto(s, "update.delAll")
  /\ UNCHANGED <<logVars, variant, sseClients, chan, redisAll, redisMsg>>

\* DELETE /api/messages/:id
DbDelete(id, password, n) ==
  /\ variant = "db"
  /\ IF password = ""
     THEN resp' = Response("delete", id, 400, <<>>, {}) /\ UNCHANGED reqs
     ELSE Start(Request("delete", "get.redis", id, password, "", "", <<>>), n) /\ UNCHANGED resp
  /\ UNCHANGED <<logVars, variant, sseClients, chan, table, redisAll, redisMsg, notifications>>

\* deleteMessage: DELETE FROM messages WHERE id = $1
DbDeletePg(s) ==
  /\ variant = "db"
  /\ reqs[s].pc = "delete.pg"
  /\ IF RowById(reqs[s].id) = <<>>
     THEN UNCHANGED <<table, notifications>>
     ELSE /\ notifications < MaxNotifications
          /\ table' = table \ {RowById(reqs[s].id)[1]}
          /\ notifications' = notifications + 1
  /\ Goto(s, "delete.delAll")
  /\ UNCHANGED <<logVars, variant, sseClients, chan, redisAll, redisMsg>>

\* likeMessage / updateMessage / deleteMessage: await invalidateCache()
DbDelAll(s) ==
  /\ variant = "db"
  /\ reqs[s].pc \in {"like.delAll", "update.delAll", "delete.delAll"}
  /\ redisAll' = <<>>
  /\ Goto(s, CASE reqs[s].op = "like" -> "like.delMsg"
               [] reqs[s].op = "update" -> "update.delMsg"
               [] reqs[s].op = "delete" -> "delete.delMsg")
  /\ UNCHANGED <<logVars, variant, sseClients, chan, table, redisMsg, notifications>>

\* likeMessage / updateMessage / deleteMessage: await redisClient.del(`message:${id}`);
\* like and update then read the message again, delete answers
DbDelMsg(s) ==
  /\ variant = "db"
  /\ reqs[s].pc \in {"like.delMsg", "update.delMsg", "delete.delMsg"}
  /\ redisMsg' = [redisMsg EXCEPT ![reqs[s].id] = <<>>]
  /\ IF reqs[s].op = "delete"
     THEN Finish(s, Response("delete", reqs[s].id, 200, <<>>, {}))
     ELSE /\ reqs' = [reqs EXCEPT ![s].pc = "get.redis", ![s].phase = 2, ![s].got = <<>>]
          /\ UNCHANGED resp
  /\ UNCHANGED <<logVars, variant, sseClients, chan, table, redisAll, notifications>>

\* notificationClient.on('notification'): await invalidateCache(), then
\* broadcastUpdate()
DbNotification(n) ==
  /\ variant = "db"
  /\ notifications > 0
  /\ notifications' = notifications - 1
  /\ redisAll' = <<>>
  /\ Start(Request("notify", "all.redis", "", "", "", "", <<>>), n)
  /\ UNCHANGED <<logVars, variant, sseClients, chan, resp, table, redisMsg>>

\* The steps of getMessageById, of getMessages and of the cache invalidation
\* that the handlers share
GetSteps(s) == DbGetRedis(s) \/ DbGetPg(s) \/ DbGetSetEx(s)
AllSteps(s) == DbAllRedis(s) \/ DbAllPg(s) \/ DbAllSetEx(s)
DelSteps(s) == DbDelAll(s) \/ DbDelMsg(s)

DbInit == InitWith({"db"})

\* ---- the database server with two requests in flight on one id: creates
\* (with either password, or none), and content reads and deletes by a
\* client that knows the password p1
RaceInputs ==
  Inputs({"m1"}, {"ESD"}, {1}, {0}, Passwords, BOOLEAN, {"p1"}, {"B"}, {""}, 1, MaxInFlight)

RaceNext ==
  \/ \E b \in CreateBodies(RaceInputs), isPrivate \in RaceInputs.privates :
       DbCreate(b, isPrivate, RaceInputs.inFlight)
  \/ \E id \in RaceInputs.ids, p \in RaceInputs.passwords :
       DbContent(id, p, RaceInputs.inFlight)
  \/ \E id \in RaceInputs.ids, p \in RaceInputs.passwords :
       DbDelete(id, p, RaceInputs.inFlight)
  \/ DbNotification(RaceInputs.inFlight)
  \/ \E s \in 1..MaxInFlight :
       \/ GetSteps(s)
       \/ AllSteps(s)
       \/ DbCreatePg(s)
       \/ DbCreateDel(s)
       \/ DbDeletePg(s)
       \/ DelSteps(s)

RaceSpec == DbInit /\ [][RaceNext]_vars

\* ---- the database server, its requests one at a time: creates of public
\* and private messages, likes, list reads, channels and notifications
DbInputs ==
  Inputs(Ids, {"ESD"}, {1}, {0}, CreatePasswords, BOOLEAN, {"p1"}, {"B"}, {""}, 1, 1)

DbNext ==
  \/ \E b \in CreateBodies(DbInputs), isPrivate \in DbInputs.privates :
       DbCreate(b, isPrivate, DbInputs.inFlight)
  \/ \E id \in DbInputs.ids : DbLike(id, DbInputs.inFlight)
  \/ DbGetMessages(DbInputs.inFlight)
  \/ \E c \in Channels : DbConnect(c, DbInputs.inFlight)
  \/ \E c \in Channels : DbClose(c)
  \/ DbNotification(DbInputs.inFlight)
  \/ \E s \in 1..MaxInFlight :
       \/ GetSteps(s)
       \/ AllSteps(s)
       \/ DbCreatePg(s)
       \/ DbCreateDel(s)
       \/ DbLikePg(s, DbInputs.likeCap)
       \/ DelSteps(s)

DbSpec == DbInit /\ [][DbNext]_vars

\* ---- the database server, every route on one id, its requests one at a
\* time, and the Redis keys running out
OpsInputs ==
  Inputs({"m1"}, {"ESD"}, {1}, {0}, CreatePasswords, BOOLEAN, Passwords, UpdateAuthors,
         {""}, 1, 1)

OpsNext ==
  \/ \E b \in CreateBodies(OpsInputs), isPrivate \in OpsInputs.privates :
       DbCreate(b, isPrivate, OpsInputs.inFlight)
  \/ \E id \in OpsInputs.ids : DbLike(id, OpsInputs.inFlight)
  \/ \E id \in OpsInputs.ids, p \in OpsInputs.passwords :
       DbVerify(id, p, OpsInputs.inFlight)
  \/ \E id \in OpsInputs.ids, p \in OpsInputs.passwords :
       DbContent(id, p, OpsInputs.inFlight)
  \/ \E id \in OpsInputs.ids, p \in OpsInputs.passwords,
        a \in OpsInputs.updateAuthors, c \in OpsInputs.updateContents :
       DbUpdate(id, p, a, c, OpsInputs.inFlight)
  \/ \E id \in OpsInputs.ids, p \in OpsInputs.passwords :
       DbDelete(id, p, OpsInputs.inFlight)
  \/ DbGetMessages(OpsInputs.inFlight)
  \/ \E c \in Channels : DbConnect(c, OpsInputs.inFlight)
  \/ \E c \in Channels : DbClose(c)
  \/ DbNotification(OpsInputs.inFlight)
  \/ DbExpireAll
  \/ \E id \in OpsInputs.ids : DbExpireMsg(id)
  \/ \E s \in 1..MaxInFlight :
       \/ GetSteps(s)
       \/ AllSteps(s)
       \/ DbCreatePg(s)
       \/ DbCreateDel(s)
       \/ DbLikePg(s, OpsInputs.likeCap)
       \/ DbUpdatePg(s)
       \/ DbDeletePg(s)
       \/ DelSteps(s)

OpsSpec == DbInit /\ [][OpsNext]_vars

\* ---- all four servers: creates, list reads, channels and (database) the
\* change notifications
CreateInputs ==
  Inputs({"m1"}, {"ESD"}, {1}, {0, 1}, CreatePasswords, BOOLEAN, Passwords, UpdateAuthors,
         {""}, 1, MaxInFlight)

CreateInit == InitWith(LogVariants \cup {"db"})

CreateNext ==
  \/ \E b \in CreateBodies(CreateInputs) :
       \/ b.password = ""
            /\ PlainCreate(b.id, b.author, b.group, b.content, b.timestamp, b.likes)
       \/ FileCreate(b.id, b.author, b.group, b.content, b.timestamp, b.likes, b.password)
       \/ CachedCreate(b.id, b.author, b.group, b.content, b.timestamp, b.likes, b.password)
       \/ \E isPrivate \in CreateInputs.privates :
            DbCreate(b, isPrivate, CreateInputs.inFlight)
  \/ PlainGetMessages
  \/ FileGetMessages
  \/ CachedGetMessages
  \/ DbGetMessages(CreateInputs.inFlight)
  \/ \E c \in Channels : CachedConnect(c) \/ DbConnect(c, CreateInputs.inFlight)
  \/ \E c \in Channels : CachedClose(c) \/ DbClose(c)
  \/ DbNotification(CreateInputs.inFlight)
  \/ \E s \in 1..MaxInFlight :
       \/ AllSteps(s)
       \/ DbCreatePg(s)
       \/ DbCreateDel(s)

CreateSpec == CreateInit /\ [][CreateNext]_vars

\* ... with the scheduling of the event loop: a handler that awaits Redis or
\* PostgreSQL is resumed when the command has been answered, and the
\* listener is called for every notification PostgreSQL delivers
CreateFairSpec ==
  /\ CreateSpec
  /\ \A s \in 1..MaxInFlight : WF_vars(AllSteps(s) \/ DbCreatePg(s) \/ DbCreateDel(s))
  /\ SF_vars(DbNotification(CreateInputs.inFlight))

LogInit == InitWith(LogVariants)

LogNext(u) == PlainNext(u) \/ FileNext(u) \/ CachedNext(u)

LogInputs ==
  Inputs(Ids, {"ESD"}, Timestamps, {0}, CreatePasswords, {FALSE}, Passwords, UpdateAuthors, {""},
         MaxLikes, 1)

LogSpec == LogInit /\ [][LogNext(LogInputs)]_vars

\* ============================================================= failures
\* A persistence call of a log-file handler throws (appendFileSync or
\* writeFileSync refuses: disk full, no permission): the call writes
\* nothing, the handler's catch answers 500, and what the handler did
\* before the call stays done.  `failing` names the call that throws.

\* POST /api/messages with a valid body: appendMessage(message), then
\* saveToGroupTxt(message), then messagesCache.unshift(message)
CachedCreateFails(id, author, group, content, timestamp, likes, password, failing) ==
  /\ variant = "cached"
  /\ id # "" /\ author # "" /\ group # "" /\ content # ""
  /\ LET message == WithHash(NewMessage(id, author, group, content, timestamp, likes), password) IN
     CASE failing = "appendMessage" -> UNCHANGED file
       [] failing = "saveToGroupTxt" -> Len(file) < MaxMsgs /\ file' = Append(file, message)
  /\ resp' = Response("create", id, 500, <<>>, {})
  /\ UNCHANGED <<dbVars, variant, txt, messagesCache, sseClients, chan>>

\* POST /api/messages/:id/like: messages[messageIndex].likes + 1 in the
\* cache array, then updateMessages(messages), whose messages.reverse()
\* precedes its writeFileSync
CachedLikeFails(id, likeCap) ==
  /\ variant = "cached"
  /\ LET messages == messagesCache
         messageIndex == findIndex(messages, id)
     IN /\ messageIndex # 0
        /\ messages[messageIndex].likes < likeCap
        /\ messagesCache' = Reverse([messages EXCEPT ![messageIndex].likes = @ + 1])
  /\ resp' = Response("like", id, 500, <<>>, {})
  /\ UNCHANGED <<dbVars, variant, file, txt, sseClients, chan>>

\* DELETE /api/messages/:id, its checks passed: messagesCache.splice, then
\* updateMessages(messagesCache), then rebuildGroupTxtFiles()
CachedDeleteFails(id, password, failing) ==
  /\ variant = "cached"
  /\ LET messages == messagesCache
         messageIndex == findIndex(messages, id)
         after == updateMessages(splice(messagesCache, messageIndex))
     IN /\ AuthStatus(messages, messageIndex, password) = 0
        /\ messagesCache' = after
        /\ CASE failing = "updateMessages" -> UNCHANGED file
             [] failing = "rebuildGroupTxtFiles" -> file' = after
  /\ resp' = Response("delete", id, 500, <<>>, {})
  /\ UNCHANGED <<dbVars, variant, txt, sseClients, chan>>

\* PUT /api/messages/:id of the uncached server, its checks passed:
\* updateMessages(messages) on the array just read, then
\* rebuildGroupTxtFiles()
FileUpdateFails(id, password, author, content, failing) ==
  /\ variant = "file"
  /\ LET messages == readMessagesFromFile
         messageIndex == findIndex(messages, id)
         message == ApplyUpdate(messages[messageIndex], author, content)
     IN /\ AuthStatus(messages, messageIndex, password) = 0
        /\ CASE failing = "updateMessages" -> UNCHANGED file
             [] failing = "rebuildGroupTxtFiles" ->
                  file' = updateMessages([messages EXCEPT ![messageIndex] = message])
  /\ resp' = Response("update", id, 500, <<>>, {})
  /\ UNCHANGED <<dbVars, variant, txt, messagesCache, sseClients, chan>>

\* ---- the cached and the uncached log-file server with persistence calls
\* that may throw
FailInputs ==
  Inputs(Ids, {"ESD"}, {1}, {0}, {"p1"}, {FALSE}, {"p1"}, {"B"}, {""}, 1, 1)

FailInit == InitWith({"file", "cached"})

FailNext ==
  \/ \E b \in CreateBodies(FailInputs) :
       \/ FileCreate(b.id, b.author, b.group, b.content, b.timestamp, b.likes, b.password)
       \/ CachedCreate(b.id, b.author, b.group, b.content, b.timestamp, b.likes, b.password)
       \/ \E failing \in {"appendMessage", "saveToGroupTxt"} :
            CachedCreateFails(b.id, b.author, b.group, b.content, b.timestamp, b.likes,
                              b.password, failing)
  \/ \E id \in FailInputs.ids :
       CachedLike(id, FailInputs.likeCap) \/ CachedLikeFails(id, FailInputs.likeCap)
  \/ \E id \in FailInputs.ids, p \in FailInputs.passwords :
       \/ CachedDelete(id, p)
       \/ \E failing \in {"updateMessages", "rebuildGroupTxtFiles"} :
            CachedDeleteFails(id, p, failing)
  \/ \E id \in FailInputs.ids, p \in FailInputs.passwords,
        a \in FailInputs.updateAuthors, c \in FailInputs.updateContents :
       \/ FileUpdate(id, p, a, c)
       \/ \E failing \in {"updateMessages", "rebuildGroupTxtFiles"} :
            FileUpdateFails(id, p, a, c, failing)
  \/ FileGetMessages
  \/ CachedGetMessages
  \/ \E c \in Channels : CachedConnect(c) \/ CachedClose(c)

FailSpec == FailInit /\ [][FailNext]_vars

\* =============================================================== export
\* POST /api/download-txt.  An archive is the sequence of its entries, each
\* a file name (the group) and the lines of the transcript.

DOWNLOAD_PASSWORD == "dt2025-pw"
DownloadPasswords == {"", "dt2025-pw", "p1"}

\* The order in which the directory listing, and ORDER BY "group", give the
\* groups
GroupOrder == <<"ESD", "FDM">>

\* Cached log-file server: the .txt files found in the message directory
\* are put into the archive as they are on disk
CachedDownload(password) ==
  /\ variant = "cached"
  /\ LET files == SelectSeq(GroupOrder, LAMBDA g : txt[g] # <<>>) IN
     resp' = IF password = "" THEN Response("download", "", 400, <<>>, {})
             ELSE IF password # DOWNLOAD_PASSWORD THEN Response("download", "", 401, <<>>, {})
             ELSE IF files = <<>> THEN Response("download", "", 404, <<>>, {})
             ELSE Response("download", "", 200,
                    [i \in 1..Len(files) |-> [name |-> files[i], content |-> txt[files[i]]]], {})
  /\ UNCHANGED <<dbVars, variant, file, txt, messagesCache, sseClients, chan>>

\* SELECT ... WHERE "group" = $1 ORDER BY timestamp ASC: the rows of the
\* group in any order that is oldest first
RowsOldestFirst(rows) ==
  { l \in [1..Cardinality(rows) -> rows] :
      /\ \A i, j \in 1..Cardinality(rows) : i # j => l[i] # l[j]
      /\ \A i, j \in 1..Cardinality(rows) : i < j => l[i].timestamp <= l[j].timestamp }

\* generateGroupTxt: the lines `[author]: content` of the group's rows (the
\* results the SELECT may give); <<>> stands for ''
generateGroupTxt(group) ==
  { Map(l, TxtLine) : l \in RowsOldestFirst({ r \in table : r.group = group }) }

\* Database server: the handler checks the secret and awaits the groups
DbDownload(password, n) ==
  /\ variant = "db"
  /\ IF password = ""
     THEN resp' = Response("download", "", 400, <<>>, {}) /\ UNCHANGED reqs
     ELSE IF password # DOWNLOAD_PASSWORD
     THEN resp' = Response("download", "", 401, <<>>, {}) /\ UNCHANGED reqs
     ELSE /\ Start(Request("download", "dl.groups", "", password, "", "", <<>>), n)
          /\ UNCHANGED resp
  /\ UNCHANGED <<logVars, variant, sseClients, chan, table, redisAll, redisMsg, notifications>>

\* SELECT DISTINCT "group" FROM messages ORDER BY "group"; with groups, the
\* archive is created and piped to the response.  `got` holds the handler's
\* locals: the groups still to do and the entries appended so far.
DbDlGroups(s) ==
  /\ variant = "db"
  /\ reqs[s].pc = "dl.groups"
  /\ LET groups == SelectSeq(GroupOrder, LAMBDA g : \E r \in table : r.group = g) IN
     IF groups = <<>>
     THEN Finish(s, Response("download", "", 404, <<>>, {}))
     ELSE /\ reqs' = [reqs EXCEPT ![s].pc = "dl.txt",
                                  ![s].got = <<[groups |-> groups, archive |-> <<>>]>>]
          /\ UNCHANGED resp
  /\ UNCHANGED <<logVars, variant, sseClients, chan, table, redisAll, redisMsg, notifications>>

\* One turn of the loop: await generateGroupTxt(group), append the entry if
\* it has content; after the last group archive.finalize() ends the response
DbDlTxt(s) ==
  /\ variant = "db"
  /\ reqs[s].pc = "dl.txt"
  /\ LET loc == reqs[s].got[1]
         group == Head(loc.groups)
     IN \E content \in generateGroupTxt(group) :
          LET archive == IF content # <<>>
                         THEN Append(loc.archive, [name |-> group, content |-> content])
                         ELSE loc.archive
          IN IF Tail(loc.groups) = <<>>
             THEN Finish(s, Response("download", "", 200, archive, {}))
             ELSE /\ reqs' = [reqs EXCEPT
                                ![s].got = <<[groups |-> Tail(loc.groups), archive |-> archive]>>]
                  /\ UNCHANGED resp
  /\ UNCHANGED <<logVars, variant, sseClients, chan, table, redisAll, redisMsg, notifications>>

\* generateGroupTxt throws (the SELECT fails) and the handler's catch calls
\* res.status(500).json().  The archive is already piped to the response:
\* if the archiver has written an appended entry to it while the handler
\* awaited, the headers are sent, the catch's call throws, and the client
\* is left with status 200 and the bytes of the entries so far on a stream
\* that never ends (id "aborted"); if it has not, the client gets the 500.
DbDlTxtFails(s) ==
  /\ variant = "db"
  /\ reqs[s].pc = "dl.txt"
  /\ LET loc == reqs[s].got[1] IN
     \/ Finish(s, Response("download", "", 500, <<>>, {}))
     \/ /\ loc.archive # <<>>
        /\ Finish(s, Response("download", "aborted", 200, loc.archive, {}))
  /\ UNCHANGED <<logVars, variant, sseClients, chan, table, redisAll, redisMsg, notifications>>

\* ---- the cached log-file server and the database server (its requests
\* one at a time) with creates in both groups, updates, deletes and exports
ExportInputs ==
  Inputs(Ids, Groups, {1}, {0}, {"p1"}, {FALSE}, {"p1"}, {"B"}, {""}, 1, 1)

ExportInit == InitWith({"cached", "db"})

ExportNext ==
  \/ \E b \in CreateBodies(ExportInputs) :
       \/ CachedCreate(b.id, b.author, b.group, b.content, b.timestamp, b.likes, b.password)
       \/ \E isPrivate \in ExportInputs.privates : DbCreate(b, isPrivate, ExportInputs.inFlight)
  \/ \E id \in ExportInputs.ids, p \in ExportInputs.passwords,
        a \in ExportInputs.updateAuthors, c \in ExportInputs.updateContents :
       CachedUpdate(id, p, a, c) \/ DbUpdate(id, p, a, c, ExportInputs.inFlight)
  \/ \E id \in ExportInputs.ids, p \in ExportInputs.passwords :
       CachedDelete(id, p) \/ DbDelete(id, p, ExportInputs.inFlight)
  \/ \E p \in DownloadPasswords :
       CachedDownload(p) \/ DbDownload(p, ExportInputs.inFlight)
  \/ DbNotification(ExportInputs.inFlight)
  \/ \E s \in 1..MaxInFlight :
       \/ GetSteps(s)
       \/ AllSteps(s)
       \/ DbCreatePg(s)
       \/ DbCreateDel(s)
       \/ DbUpdatePg(s)
       \/ DbDeletePg(s)
       \/ DelSteps(s)
       \/ DbDlGroups(s)
       \/ DbDlTxt(s)
       \/ DbDlTxtFails(s)

ExportSpec == ExportInit /\ [][ExportNext]_vars

\* ---- the uncached and the cached log-file server and the database server
\* (its requests one at a time, its Redis keys running out), every route on
\* one id
VerifyInit == InitWith({"file", "cached", "db"})

VerifyNext == FileNext(OpsInputs) \/ CachedNext(OpsInputs) \/ OpsNext

VerifySpec == VerifyInit /\ [][VerifyNext]_vars

\* ---- the database server, its requests one at a time, with clients that
\* also post a group name (HR) that is no GroupId
\* (the two Korean identifiers are written in Latin letters)
GroupId ==
  {"ESD", "FDM", "BDM", "DV1", "DV2", "DV3", "DV4", "ET", "AT", "PV", "AI Agent", "GTE",
   "TDE", "Gongjeong", "Gaebaljiwongwa", "Staff"}

GroupInputs ==
  Inputs(Ids, {"ESD", "HR"}, {1}, {0}, CreatePasswords, BOOLEAN, {"p1"}, {"B"}, {""}, 1, 1)

GroupNext ==
  \/ \E b \in CreateBodies(GroupInputs), isPrivate \in GroupInputs.privates :
       DbCreate(b, isPrivate, GroupInputs.inFlight)
  \/ DbGetMessages(GroupInputs.inFlight)
  \/ DbNotification(GroupInputs.inFlight)
  \/ \E s \in 1..MaxInFlight :
       \/ AllSteps(s)
       \/ DbCreatePg(s)
       \/ DbCreateDel(s)

GroupSpec == DbInit /\ [][GroupNext]_vars

\* ========================================================= subscription
\* src/unnamed/part_004:207-255: backend.subscribe of the browser client,
\* connected to the cached log-file server.  The client end is kept under
\* the key "sub" of chan: eventSource ("none" for null, else the state of
\* the EventSource), reconnectTimeout (a timer is pending), and, to tell
\* the runs apart, how many stream errors there have been and whether the
\* cleanup function has run.  The subscription's connection is channel
\* SubChannel at the server.

SubChannel == "c1"

\* subscribe() has run connect(): the first EventSource is connecting
SubInit ==
  /\ variant = "cached"
  /\ file = <<>>
  /\ txt = [g \in Groups |-> <<>>]
  /\ messagesCache = <<>>
  /\ sseClients = {}
  /\ chan = [c \in Channels \cup {"sub"} |->
               IF c = "sub"
               THEN [eventSource |-> "connecting", reconnectTimeout |-> FALSE,
                     errors |-> 0, cancelled |-> FALSE]
               ELSE [st |-> "idle", last |-> <<>>]]
  /\ resp = NoResponse
  /\ table = {}
  /\ redisAll = <<>>
  /\ redisMsg = [id \in Ids |-> <<>>]
  /\ reqs = [s \in 1..MaxInFlight |-> Idle]
  /\ notifications = 0

\* The server's end of eventSource.close(): req.on('close')
SubClosed(ch) ==
  IF ch[SubChannel].st = "open"
  THEN [ch EXCEPT ![SubChannel] = [st |-> "closed", last |-> <<>>]]
  ELSE ch

\* The EventSource's request reaches GET /api/events, which writes the list
\* and adds the connection to the broadcast set; onopen only logs
SubOpen ==
  /\ variant = "cached"
  /\ chan["sub"].eventSource = "connecting"
  /\ chan' = [chan EXCEPT
                ![SubChannel] = [st |-> "open", last |-> sanitizedMessages(messagesCache)],
                !["sub"].eventSource = "open"]
  /\ sseClients' = sseClients \cup {SubChannel}
  /\ resp' = Response("events", "", 200, <<>>, {SubChannel})
  /\ UNCHANGED <<dbVars, variant, file, txt, messagesCache>>

\* eventSource.onerror, while connecting or open: eventSource.close();
\* eventSource = null; reconnectTimeout = setTimeout(connect, 2000)
SubErrorGivesUp ==
  /\ variant = "cached"
  /\ chan["sub"].eventSource # "none"
  /\ chan["sub"].errors < MaxErrors
  /\ chan' = [SubClosed(chan) EXCEPT
                !["sub"].eventSource = "none",
                !["sub"].reconnectTimeout = (chan["sub"].errors = 0),
                !["sub"].errors = @ + 1]
  /\ sseClients' = sseClients \ {SubChannel}
  /\ UNCHANGED <<dbVars, variant, file, txt, messagesCache, resp>>
SubError ==
  /\ variant = "cached"
  /\ chan["sub"].eventSource # "none"
  /\ chan["sub"].errors < MaxErrors
  /\ chan' = [SubClosed(chan) EXCEPT
                !["sub"].eventSource = "none",
                !["sub"].reconnectTimeout = TRUE,
                !["sub"].errors = @ + 1]
  /\ sseClients' = sseClients \ {SubChannel}
  /\ UNCHANGED <<dbVars, variant, file, txt, messagesCache, resp>>

\* The timer fires and runs connect(): close the EventSource there is, if
\* any, and make a new one
SubConnect ==
  /\ variant = "cached"
  /\ chan["sub"].reconnectTimeout
  /\ chan' = [SubClosed(chan) EXCEPT
                !["sub"].eventSource = "connecting",
                !["sub"].reconnectTimeout = FALSE]
  /\ sseClients' = sseClients \ {SubChannel}
  /\ UNCHANGED <<dbVars, variant, file, txt, messagesCache, resp>>

\* The cleanup function subscribe returned: clearTimeout(reconnectTimeout),
\* eventSource.close(), eventSource = null
SubCleanupKeepsTimer ==
  /\ variant = "cached"
  /\ ~chan["sub"].cancelled
  /\ chan' = [SubClosed(chan) EXCEPT
                !["sub"].eventSource = "none",
                !["sub"].cancelled = TRUE]
  /\ sseClients' = sseClients \ {SubChannel}
  /\ UNCHANGED <<dbVars, variant, file, txt, messagesCache, resp>>
SubCleanup ==
  /\ variant = "cached"
  /\ ~chan["sub"].cancelled
  /\ chan' = [SubClosed(chan) EXCEPT
                !["sub"].eventSource = "none",
                !["sub"].reconnectTimeout = FALSE,
                !["sub"].cancelled = TRUE]
  /\ sseClients' = sseClients \ {SubChannel}
  /\ UNCHANGED <<dbVars, variant, file, txt, messagesCache, resp>>

\* ---- one subscription and the cached log-file server with creates, likes
\* and list reads by other clients
SubInputs ==
  Inputs(Ids, {"ESD"}, {1}, {0}, {""}, {FALSE}, {"p1"}, {"B"}, {""}, 1, 1)

SubNext ==
  \/ SubOpen
  \/ SubError
  \/ SubConnect
  \/ SubCleanup
  \/ \E b \in CreateBodies(SubInputs) :
       CachedCreate(b.id, b.author, b.group, b.content, b.timestamp, b.likes, b.password)
  \/ \E id \in SubInputs.ids : CachedLike(id, SubInputs.likeCap)
  \/ CachedGetMessages

SubSpec == SubInit /\ [][SubNext]_vars

\* ... with the timer of setTimeout(connect, 2000), which fires unless it is
\* cleared
SubFairSpec == SubSpec /\ WF_vars(SubConnect)

\* ============================================================== polling
\* src/services/backend.ts:204-241: backend.subscribe of the polling
\* client, reading the uncached log-file server.  The subscription is kept
\* under the key "sub" of chan: lastMessageCount, lastMessageIds (the ids
\* joined, as their sequence), the list last handed to the callback, and
\* whether the cleanup function has run.

\* subscribe() has run and its initial localHandler() has read the empty
\* store
PollInit ==
  /\ variant = "file"
  /\ file = <<>>
  /\ txt = [g \in Groups |-> <<>>]
  /\ messagesCache = <<>>
  /\ sseClients = {}
  /\ chan = [c \in Channels \cup {"sub"} |->
               IF c = "sub"
               THEN [lastMessageCount |-> 0, lastMessageIds |-> <<>>, shown |-> <<>>,
                     cancelled |-> FALSE]
               ELSE [st |-> "idle", last |-> <<>>]]
  /\ resp = NoResponse
  /\ table = {}
  /\ redisAll = <<>>
  /\ redisMsg = [id \in Ids |-> <<>>]
  /\ reqs = [s \in 1..MaxInFlight |-> Idle]
  /\ notifications = 0

\* messages.map(m => m.id).join(',')
JoinedIds(messages) == [i \in 1..Len(messages) |-> messages[i].id]

\* The interval's handler: getMessages(), then the callback when the count
\* or the ids differ from the last ones
PollHandler ==
  /\ variant = "file"
  /\ ~chan["sub"].cancelled
  /\ LET messages == sanitizedMessages(readMessagesFromFile) IN
     /\ resp' = Response("list", "", 200, messages, {})
     /\ chan' = IF \/ Len(messages) # chan["sub"].lastMessageCount
                   \/ JoinedIds(messages) # chan["sub"].lastMessageIds
                THEN [chan EXCEPT !["sub"].lastMessageCount = Len(messages),
                                  !["sub"].lastMessageIds = JoinedIds(messages),
                                  !["sub"].shown = messages]
                ELSE chan
  /\ UNCHANGED <<dbVars, variant, file, txt, messagesCache, sseClients>>

\* A 'message-update' event of the same tab: localHandler reads the list
\* and always calls the callback
PollLocalHandler ==
  /\ variant = "file"
  /\ ~chan["sub"].cancelled
  /\ LET messages == sanitizedMessages(readMessagesFromFile) IN
     /\ resp' = Response("list", "", 200, messages, {})
     /\ chan' = [chan EXCEPT !["sub"].lastMessageCount = Len(messages),
                             !["sub"].lastMessageIds = JoinedIds(messages),
                             !["sub"].shown = messages]
  /\ UNCHANGED <<dbVars, variant, file, txt, messagesCache, sseClients>>

\* The cleanup function: removeEventListener, clearInterval
PollCleanup ==
  /\ variant = "file"
  /\ ~chan["sub"].cancelled
  /\ chan' = [chan EXCEPT !["sub"].cancelled = TRUE]
  /\ UNCHANGED <<dbVars, variant, file, txt, messagesCache, sseClients, resp>>

\* ---- one polling subscription and the uncached log-file server with the
\* creates, likes, updates and deletes of other clients
PollInputs ==
  Inputs(Ids, {"ESD"}, {1}, {0}, {"p1"}, {FALSE}, {"p1"}, {"B"}, {""}, 1, 1)

PollNext ==
  \/ PollHandler
  \/ PollLocalHandler
  \/ PollCleanup
  \/ \E b \in CreateBodies(PollInputs) :
       FileCreate(b.id, b.author, b.group, b.content, b.timestamp, b.likes, b.password)
  \/ \E id \in PollInputs.ids : FileLike(id, PollInputs.likeCap)
  \/ \E id \in PollInputs.ids, p \in PollInputs.passwords,
        a \in PollInputs.updateAuthors, c \in PollInputs.updateContents :
       FileUpdate(id, p, a, c)
  \/ \E id \in PollInputs.ids, p \in PollInputs.passwords : FileDelete(id, p)

PollSpec == PollInit /\ [][PollNext]_vars

\* ... with the timer of setInterval(handler, 1000), which fires until it
\* is cleared
PollFairSpec == PollSpec /\ WF_vars(PollHandler)

\* ================================================== the client's requests
\* src/unnamed/part_004 (and, but for API_BASE_URL, src/services/backend.ts):
\* fetchWithRetry and two of its callers, addMessage and getMessages,
\* against the servers.  The client's state is the entry "fetch" of chan:
\* the call it is in, the body it posts, fetchWithRetry's maxRetries and i,
\* where it stands (pc), how many times it has called fetch and how many
\* times it has waited, the status of the response fetchWithRetry returned,
\* what the caller made of it, and the ids it has given to addMessage.
\* resp is what the server has written to the connection of the fetch going
\* on: NoResponse until a handler answers.

\* addMessage passes maxRetries = 3; getMessages leaves the default, 5
AddMessageRetries == 3
DefaultRetries == 5

NoBody ==
  [id |-> "", author |-> "", group |-> "", content |-> "", timestamp |-> 0, likes |-> 0,
   password |-> ""]

FetchIdle ==
  [call |-> "none", body |-> NoBody, isPrivate |-> FALSE, maxRetries |-> 0, i |-> 0,
   pc |-> "idle", attempts |-> 0, waits |-> 0, status |-> 0, result |-> "none", added |-> {}]

FetchInitWith(variants) ==
  /\ variant \in variants
  /\ file = <<>>
  /\ txt = [g \in Groups |-> <<>>]
  /\ messagesCache = <<>>
  /\ sseClients = {}
  /\ chan = [c \in Channels \cup {"fetch"} |->
               IF c = "fetch" THEN FetchIdle ELSE [st |-> "idle", last |-> <<>>]]
  /\ resp = NoResponse
  /\ table = {}
  /\ redisAll = <<>>
  /\ redisMsg = [id \in Ids |-> <<>>]
  /\ reqs = [s \in 1..MaxInFlight |-> Idle]
  /\ notifications = 0

\* response.ok
Ok(status) == status \in 200..299

\* A call enters fetchWithRetry: lastError = null, i = 0
EntersFetch(call, body, isPrivate, maxRetries) ==
  /\ chan["fetch"].pc \in {"idle", "returned", "thrown"}
  /\ chan' = [chan EXCEPT !["fetch"] =
                [call |-> call, body |-> body, isPrivate |-> isPrivate,
                 maxRetries |-> maxRetries, i |-> 0, pc |-> "loop", attempts |-> 0,
                 waits |-> 0, status |-> 0, result |-> "none",
                 added |-> IF call = "addMessage" THEN @.added \cup {body.id} ELSE @.added]]
  /\ UNCHANGED <<dbVars, variant, file, txt, messagesCache, sseClients, resp>>

\* backend.addMessage(message, password), of a message whose id this client
\* has not posted before
ClientAddMessage(body, isPrivate) ==
  /\ body.id \notin chan["fetch"].added
  /\ EntersFetch("addMessage", body, isPrivate, AddMessageRetries)

\* backend.getMessages()
ClientGetMessages == EntersFetch("getMessages", NoBody, FALSE, DefaultRetries)

\* for (let i = 0; i < maxRetries; i++) { try { await fetch(url, options) ...:
\* the loop's test and the call of fetch; past the loop,
\* throw lastError || new Error('Fetch failed')
FetchAttempt ==
  /\ chan["fetch"].pc = "loop"
  /\ IF chan["fetch"].i < chan["fetch"].maxRetries
     THEN /\ chan' = [chan EXCEPT !["fetch"].pc = "fetch", !["fetch"].attempts = @ + 1]
          /\ resp' = NoResponse
     ELSE /\ chan' = [chan EXCEPT !["fetch"].pc = "thrown",
                                  !["fetch"].result =
                                     IF chan["fetch"].call = "addMessage" THEN "failed" ELSE "empty"]
          /\ UNCHANGED resp
  /\ UNCHANGED <<dbVars, variant, file, txt, messagesCache, sseClients>>

\* A handler of this client's request is running
Handling == \E s \in 1..MaxInFlight : reqs[s].op \in {"create", "list"}

\* The request of the fetch going on reaches the server
Reaches(call) ==
  /\ chan["fetch"].pc = "fetch"
  /\ chan["fetch"].call = call
  /\ resp = NoResponse
  /\ ~Handling

\* fetch resolves: return response, whatever its status.  addMessage throws
\* unless response.ok; getMessages returns [] unless response.ok.
FetchResolves ==
  /\ chan["fetch"].pc = "fetch"
  /\ resp # NoResponse
  /\ chan' = [chan EXCEPT !["fetch"].pc = "returned",
                          !["fetch"].status = resp.status,
                          !["fetch"].result =
                             IF chan["fetch"].call = "addMessage"
                             THEN (IF Ok(resp.status) THEN "saved" ELSE "failed")
                             ELSE (IF Ok(resp.status) THEN "list" ELSE "empty")]
  /\ UNCHANGED <<dbVars, variant, file, txt, messagesCache, sseClients, resp>>

\* fetch throws, the request or its response lost on the way:
\* lastError = error; on the last retry throw it, else wait
FetchRejectsAlwaysWaits ==
  /\ chan["fetch"].pc = "fetch"
  /\ ~Handling
  /\ chan' = [chan EXCEPT !["fetch"].pc = "wait", !["fetch"].waits = @ + 1]
  /\ UNCHANGED <<dbVars, variant, file, txt, messagesCache, sseClients, resp>>
FetchRejects ==
  /\ chan["fetch"].pc = "fetch"
  /\ ~Handling
  /\ IF chan["fetch"].i = chan["fetch"].maxRetries - 1
     THEN chan' = [chan EXCEPT !["fetch"].pc = "thrown",
                               !["fetch"].result =
                                  IF chan["fetch"].call = "addMessage" THEN "failed" ELSE "empty"]
     ELSE chan' = [chan EXCEPT !["fetch"].pc = "wait", !["fetch"].waits = @ + 1]
  /\ UNCHANGED <<dbVars, variant, file, txt, messagesCache, sseClients, resp>>

\* The timer of the wait fires: i++
FetchRetry ==
  /\ chan["fetch"].pc = "wait"
  /\ chan' = [chan EXCEPT !["fetch"].pc = "loop", !["fetch"].i = @ + 1]
  /\ UNCHANGED <<dbVars, variant, file, txt, messagesCache, sseClients, resp>>

\* The bodies the client posts, and whether it asks for a private message
FetchInputs ==
  Inputs(Ids, {"ESD"}, {1}, {0}, CreatePasswords, BOOLEAN, {"p1"}, {"B"}, {""}, 1, MaxInFlight)

FetchClient ==
  \/ \E b \in CreateBodies(FetchInputs), isPrivate \in FetchInputs.privates :
       ClientAddMessage(b, isPrivate)
  \/ ClientGetMessages
  \/ FetchAttempt
  \/ FetchResolves
  \/ FetchRejects
  \/ FetchRetry

\* ---- the client against the log-file servers
FetchInit == FetchInitWith({"file", "cached"})

FetchNext ==
  \/ FetchClient
  \/ /\ Reaches("addMessage")
     /\ LET b == chan["fetch"].body IN
          \/ FileCreate(b.id, b.author, b.group, b.content, b.timestamp, b.likes, b.password)
          \/ CachedCreate(b.id, b.author, b.group, b.content, b.timestamp, b.likes, b.password)
  \/ /\ Reaches("getMessages")
     /\ (FileGetMessages \/ CachedGetMessages)

FetchSpec == FetchInit /\ [][FetchNext]_vars

\* ... with what the browser guarantees: a fetch settles, by a response or
\* by an error, and a timer fires
FetchFairSpec ==
  /\ FetchSpec
  /\ WF_vars(FetchAttempt)
  /\ WF_vars(FetchResolves \/ FetchRejects)
  /\ WF_vars(FetchRetry)

\* ---- the client against the log-file servers and the database server
AddInit == FetchInitWith({"file", "cached", "db"})

AddNext ==
  \/ FetchNext
  \/ /\ Reaches("addMessage")
     /\ DbCreate(chan["fetch"].body, chan["fetch"].isPrivate, FetchInputs.inFlight)
  \/ /\ Reaches("getMessages")
     /\ DbGetMessages(FetchInputs.inFlight)
  \/ DbNotification(FetchInputs.inFlight)
  \/ \E s \in 1..MaxInFlight :
       \/ AllSteps(s)
       \/ DbCreatePg(s)
       \/ DbCreateDel(s)

AddSpec == AddInit /\ [][AddNext]_vars

\* ========================================================== mock backend
\* src/services/mockBackend.ts: the backend kept in localStorage.  file is
\* the item 'messages/all.jsonl' (its lines, oldest first), txt the items
\* 'messages/{group}.txt'.  One subscription in this tab is kept under the
\* key "sub" of chan: the listeners the window holds for the two events, how
\* often the callback has been called, with which list last, and whether
\* the function subscribe returned has run.

MaxCalls == 3

\* The keys of the items, as the parts they are put together from
JSONL_STORAGE_KEY == <<"messages/all.jsonl">>
GROUP_TXT_PREFIX == "messages/"
\* `${GROUP_TXT_PREFIX}${message.group}.txt`
groupFileKey(message) == <<GROUP_TXT_PREFIX, message.group, ".txt">>

\* `${message.author}: ${message.content}`
MockTxtLine(m) == <<m.author, ": ", m.content>>

\* mockBackend.getMessages: the parsed lines, reversed
MockGetMessages(lines) == Reverse(lines)

\* subscribe() has run on an empty store: the anonymous listener of
\* 'storage' and handler as listener of 'local-message-update' are
\* registered, and the initial handler() has called the callback
MockInit ==
  /\ variant = "mock"
  /\ file = <<>>
  /\ txt = [g \in Groups |-> <<>>]
  /\ messagesCache = <<>>
  /\ sseClients = {}
  /\ chan = [c \in Channels \cup {"sub"} |->
               IF c = "sub"
               THEN [storage |-> {"anonymous"}, local |-> {"handler"}, calls |-> 1,
                     shown |-> <<>>, cancelled |-> FALSE]
               ELSE [st |-> "idle", last |-> <<>>]]
  /\ resp = NoResponse
  /\ table = {}
  /\ redisAll = <<>>
  /\ redisMsg = [id \in Ids |-> <<>>]
  /\ reqs = [s \in 1..MaxInFlight |-> Idle]
  /\ notifications = 0

\* handler: callback(mockBackend.getMessages())
MockHandler(sub, lines) ==
  [sub EXCEPT !.calls = @ + 1, !.shown = MockGetMessages(lines)]

\* The window dispatches 'local-message-update': every listener of it runs
MockLocalEvent(sub, lines) ==
  IF "handler" \in sub.local THEN MockHandler(sub, lines) ELSE sub

\* The window dispatches 'storage' for the item `key`: the anonymous
\* listener runs handler() if e.key === JSONL_STORAGE_KEY; handler itself,
\* were it a listener of 'storage', would run whatever the key
MockStorageEvent(sub, key, lines) ==
  LET afterAnonymous ==
        IF "anonymous" \in sub.storage /\ key = JSONL_STORAGE_KEY
        THEN MockHandler(sub, lines) ELSE sub
  IN IF "handler" \in sub.storage THEN MockHandler(afterAnonymous, lines) ELSE afterAnonymous

\* What a call may do to the subscription within the bound on the calls
WithinCalls(sub) == sub.calls <= MaxCalls

\* mockBackend.addMessage(message) in this tab
MockAddMessage(message) ==
  /\ variant = "mock"
  /\ Len(file) < MaxMsgs
  /\ Len(txt[message.group]) < MaxTxtLines
  /\ file' = Append(file, message)
  /\ txt' = saveToGroupTxt(txt, message, MockTxtLine(message))
  /\ WithinCalls(MockLocalEvent(chan["sub"], file'))
  /\ chan' = [chan EXCEPT !["sub"] = MockLocalEvent(@, file')]
  /\ UNCHANGED <<dbVars, variant, messagesCache, sseClients, resp>>

\* mockBackend.likeMessage(id) in this tab
MockLikeMessage(id, likeCap) ==
  /\ variant = "mock"
  /\ \A i \in 1..Len(file) : file[i].id = id => file[i].likes < likeCap
  /\ LET currentMessages == Reverse(MockGetMessages(file))
         likeOne(msg) == IF msg.id = id THEN [msg EXCEPT !.likes = @ + 1] ELSE msg
     IN file' = Map(currentMessages, likeOne)
  /\ WithinCalls(MockLocalEvent(chan["sub"], file'))
  /\ chan' = [chan EXCEPT !["sub"] = MockLocalEvent(@, file')]
  /\ UNCHANGED <<dbVars, variant, txt, messagesCache, sseClients, resp>>

\* mockBackend.addMessage(message) in another tab of the same origin: this
\* tab gets a 'storage' event for each of the two items it has set (the
\* 'local-message-update' event is dispatched on the other tab's window)
OtherTabAddMessage(message) ==
  /\ variant = "mock"
  /\ Len(file) < MaxMsgs
  /\ Len(txt[message.group]) < MaxTxtLines
  /\ file' = Append(file, message)
  /\ txt' = saveToGroupTxt(txt, message, MockTxtLine(message))
  /\ LET afterJsonl == MockStorageEvent(chan["sub"], JSONL_STORAGE_KEY, file')
         afterTxt == MockStorageEvent(afterJsonl, groupFileKey(message), file')
     IN /\ WithinCalls(afterTxt)
        /\ chan' = [chan EXCEPT !["sub"] = afterTxt]
  /\ UNCHANGED <<dbVars, variant, messagesCache, sseClients, resp>>

\* mockBackend.likeMessage(id) in another tab: a 'storage' event here if
\* the item has changed
OtherTabLikeMessage(id, likeCap) ==
  /\ variant = "mock"
  /\ \A i \in 1..Len(file) : file[i].id = id => file[i].likes < likeCap
  /\ LET currentMessages == Reverse(MockGetMessages(file))
         likeOne(msg) == IF msg.id = id THEN [msg EXCEPT !.likes = @ + 1] ELSE msg
     IN file' = Map(currentMessages, likeOne)
  /\ LET after == IF file' # file
                  THEN MockStorageEvent(chan["sub"], JSONL_STORAGE_KEY, file')
                  ELSE chan["sub"]
     IN /\ WithinCalls(after)
        /\ chan' = [chan EXCEPT !["sub"] = after]
  /\ UNCHANGED <<dbVars, variant, txt, messagesCache, sseClients, resp>>

\* The function subscribe returned: removeEventListener('storage', handler),
\* removeEventListener('local-message-update', handler)
MockUnsubscribe ==
  /\ variant = "mock"
  /\ ~chan["sub"].cancelled
  /\ chan' = [chan EXCEPT !["sub"].storage = @ \ {"handler"},
                          !["sub"].local = @ \ {"handler"},
                          !["sub"].cancelled = TRUE]
  /\ UNCHANGED <<dbVars, variant, file, txt, messagesCache, sseClients, resp>>

MockInputs ==
  Inputs(Ids, Groups, {1}, {0}, {""}, {FALSE}, {""}, {"B"}, {""}, 1, 1)

MockMessages ==
  [id : MockInputs.ids, author : CreateAuthors, group : MockInputs.groups,
   content : CreateContents, timestamp : MockInputs.timestamps, likes : MockInputs.createLikes]

MockNext ==
  \/ \E message \in MockMessages : MockAddMessage(message)
  \/ \E id \in MockInputs.ids : MockLikeMessage(id, MockInputs.likeCap)
  \/ \E message \in MockMessages : OtherTabAddMessage(message)
  \/ \E id \in MockInputs.ids : OtherTabLikeMessage(id, MockInputs.likeCap)
  \/ MockUnsubscribe

MockSpec == MockInit /\ [][MockNext]_vars

\* ============================================================ migration
\* src/unnamed/part_006:84-131: migrateData, the script that copies the log
\* of a log-file server into the table of the database server, which may
\* be serving likes and edits meanwhile.  file is messages/all.jsonl as
\* the log-file server left it; the script's state is the entry "migrate"
\* of chan: how many times it has been started, where the run stands, the
\* messages it has read and the index of the one it inserts next.

MaxRuns == 2

\* A line of the log that has no timestamp: the log-file servers do not ask
\* for one
NoTimestamp == 0

\* The lines a log-file server can have written
LogMessages ==
  [id : Ids, author : CreateAuthors, group : {"ESD"}, content : CreateContents,
   timestamp : {NoTimestamp, 1}, likes : {0}, passwordHash : {NoHash, hashPassword("p1")}]

RECURSIVE SeqsUpTo(_, _)
\* The sequences over S of length n or less
SeqsUpTo(S, n) ==
  IF n = 0 THEN {<<>>}
  ELSE LET shorter == SeqsUpTo(S, n - 1) IN
       shorter \cup { Append(q, x) : q \in shorter, x \in S }

MigrateInit ==
  /\ variant = "db"
  /\ file \in SeqsUpTo(LogMessages, MaxMsgs)
  /\ txt = [g \in Groups |-> <<>>]
  /\ messagesCache = <<>>
  /\ sseClients = {}
  /\ chan = [c \in Channels \cup {"migrate"} |->
               IF c = "migrate"
               THEN [runs |-> 0, pc |-> "idle", messages |-> <<>>, next |-> 0]
               ELSE [st |-> "idle", last |-> <<>>]]
  /\ resp = NoResponse
  /\ table = {}
  /\ redisAll = <<>>
  /\ redisMsg = [id \in Ids |-> <<>>]
  /\ reqs = [s \in 1..MaxInFlight |-> Idle]
  /\ notifications = 0

\* The values of the INSERT: message.likes || 0, message.passwordHash ||
\* null; is_private is left to its default
MigratedRow(message) ==
  [id |-> message.id, author |-> message.author, group |-> message.group,
   content |-> message.content, timestamp |-> message.timestamp, likes |-> message.likes,
   passwordHash |-> message.passwordHash, isPrivate |-> FALSE]

\* migrateData() starts: with no log, or an empty one, there is nothing to
\* insert; else the lines are read and parsed
MigrateStart ==
  /\ variant = "db"
  /\ chan["migrate"].pc \in {"idle", "done", "failed"}
  /\ chan["migrate"].runs < MaxRuns
  /\ chan' = [chan EXCEPT !["migrate"] =
                [runs |-> @.runs + 1, pc |-> IF file = <<>> THEN "done" ELSE "insert",
                 messages |-> file, next |-> 1]]
  /\ UNCHANGED <<logVars, variant, sseClients, resp, table, redisAll, redisMsg, reqs,
                 notifications>>

\* One turn of the loop: INSERT INTO messages ... ON CONFLICT (id) DO
\* NOTHING, each statement committed by itself.  A message without a
\* timestamp violates NOT NULL, and the catch ends the script; else a row is
\* inserted only if no row has the id, and the insert trigger then notifies.
MigrateInsertOverwrites ==
  /\ variant = "db"
  /\ chan["migrate"].pc = "insert"
  /\ LET message == chan["migrate"].messages[chan["migrate"].next]
         last == chan["migrate"].next = Len(chan["migrate"].messages)
     IN IF message.timestamp = NoTimestamp
        THEN /\ chan' = [chan EXCEPT !["migrate"].pc = "failed"]
             /\ UNCHANGED <<table, notifications>>
        ELSE /\ notifications < MaxNotifications
             /\ table' = { r \in table : r.id # message.id } \cup {MigratedRow(message)}
             /\ notifications' = notifications + 1
             /\ chan' = [chan EXCEPT !["migrate"].next = @ + 1,
                                     !["migrate"].pc = IF last THEN "done" ELSE "insert"]
  /\ UNCHANGED <<logVars, variant, sseClients, resp, redisAll, redisMsg, reqs>>
MigrateInsert ==
  /\ variant = "db"
  /\ chan["migrate"].pc = "insert"
  /\ LET message == chan["migrate"].messages[chan["migrate"].next]
         last == chan["migrate"].next = Len(chan["migrate"].messages)
     IN IF message.timestamp = NoTimestamp
        THEN /\ chan' = [chan EXCEPT !["migrate"].pc = "failed"]
             /\ UNCHANGED <<table, notifications>>
        ELSE IF RowById(message.id) # <<>>
        THEN /\ chan' = [chan EXCEPT !["migrate"].next = @ + 1,
                                     !["migrate"].pc = IF last THEN "done" ELSE "insert"]
             /\ UNCHANGED <<table, notifications>>
        ELSE /\ notifications < MaxNotifications
             /\ table' = table \cup {MigratedRow(message)}
             /\ notifications' = notifications + 1
             /\ chan' = [chan EXCEPT !["migrate"].next = @ + 1,
                                     !["migrate"].pc = IF last THEN "done" ELSE "insert"]
  /\ UNCHANGED <<logVars, variant, sseClients, resp, redisAll, redisMsg, reqs>>

\* The requests the database server gets meanwhile: likes of m1 and edits
\* of its author by a client that knows the password p1
MigrateInputs ==
  Inputs({"m1"}, {"ESD"}, {1}, {0}, {""}, {FALSE}, {"p1"}, {"B"}, {""}, 1, 1)

MigrateNext ==
  \/ MigrateStart
  \/ MigrateInsert
  \/ \E id \in MigrateInputs.ids : DbLike(id, MigrateInputs.inFlight)
  \/ \E id \in MigrateInputs.ids, p \in MigrateInputs.passwords,
        a \in MigrateInputs.updateAuthors, c \in MigrateInputs.updateContents :
       DbUpdate(id, p, a, c, MigrateInputs.inFlight)
  \/ DbNotification(MigrateInputs.inFlight)
  \/ \E s \in 1..MaxInFlight :
       \/ GetSteps(s)
       \/ AllSteps(s)
       \/ DbLikePg(s, MigrateInputs.likeCap)
       \/ DbUpdatePg(s)
       \/ DelSteps(s)

MigrateSpec == MigrateInit /\ [][MigrateNext]_vars

\* ==================================================================
\* Properties

\* The stored messages of id `id` in the log file
Stored(id) == { i \in 1..Len(file) : file[i].id = id }

\* The handler of slot s, which awaits getMessageById for its checks, gets
\* the message in this step and acts on it
Decides(s) ==
  /\ reqs[s].phase = 1
  /\ reqs[s].pc \in {"get.redis", "get.pg", "get.setex"}
  /\ reqs'[s].pc \notin {"get.redis", "get.pg", "get.setex"}

\* ... and the message of that id in the table is the one stored when the
\* handler's read was answered (always so for a read answered by Redis,
\* which the handler acts on at once)
DecidesOn(s, row) ==
  /\ Decides(s)
  /\ RowById(reqs[s].id) = <<row>>
  /\ reqs[s].pc = "get.setex" => reqs[s].got = <<row>>

\* No message without a hash is removed or edited in this step
NoHashKept ==
  /\ variant \in {"cached", "file"} =>
       \A i \in 1..Len(file) :
         file[i].passwordHash = NoHash =>
           \E j \in 1..Len(file') :
             /\ file'[j].id = file[i].id
             /\ file'[j].author = file[i].author
             /\ file'[j].content = file[i].content
             /\ file'[j].passwordHash = NoHash
  /\ variant = "db" =>
       \A r \in table :
         r.passwordHash = NoHash =>
           \E q \in table' :
             /\ q.id = r.id
             /\ q.author = r.author
             /\ q.content = r.content
             /\ q.passwordHash = NoHash

\* An update or delete with a password, of an id whose stored messages have
\* no hash, answers 403
NoHashRefused ==
  /\ \A id \in Ids, p \in Passwords \ {""}, a \in UpdateAuthors, c \in UpdateContents :
       ( /\ \/ FileUpdate(id, p, a, c) \/ FileDelete(id, p)
            \/ CachedUpdate(id, p, a, c) \/ CachedDelete(id, p)
         /\ Stored(id) # {}
         /\ \A i \in Stored(id) : file[i].passwordHash = NoHash )
       => resp'.status = 403
  /\ \A s \in 1..MaxInFlight, row \in table :
       ( /\ reqs[s].op \in {"update", "delete"}
         /\ DecidesOn(s, row)
         /\ row.passwordHash = NoHash )
       => /\ reqs'[s] = Idle
          /\ resp' = Response(reqs[s].op, reqs[s].id, 403, <<>>, {})

\* C1: in the cached, the uncached and the database server, an update or a
\* delete of a stored message that has no passwordHash is answered 403
\* whatever password it carries, and in every step a stored message without a
\* hash stays in the store with its author and its content.
C1_NoHashIsImmutable == [][NoHashRefused /\ NoHashKept]_vars

\* An update or delete of a protected message with a password that does not
\* hash to the stored hash answers 401 and changes nothing
WrongPasswordRefused ==
  /\ \A id \in Ids, p \in Passwords \ {""}, a \in UpdateAuthors, c \in UpdateContents :
       ( /\ \/ FileUpdate(id, p, a, c) \/ FileDelete(id, p)
            \/ CachedUpdate(id, p, a, c) \/ CachedDelete(id, p)
         /\ Stored(id) # {}
         /\ \A i \in Stored(id) :
              file[i].passwordHash \notin {NoHash, hashPassword(p)} )
       => /\ resp'.status = 401
          /\ resp'.pushed = {}
          /\ UNCHANGED <<file, txt, messagesCache, chan>>
  /\ \A s \in 1..MaxInFlight, row \in table :
       ( /\ reqs[s].op \in {"update", "delete"}
         /\ DecidesOn(s, row)
         /\ row.passwordHash \notin {NoHash, hashPassword(reqs[s].password)} )
       => /\ reqs'[s] = Idle
          /\ resp' = Response(reqs[s].op, reqs[s].id, 401, <<>>, {})
          /\ UNCHANGED <<table, notifications, chan>>

\* A database handler that got past the checks of update or delete holds a
\* password that hashes to the stored hash of the message it is about to write
WrongPasswordWritesNothing ==
  \A s \in 1..MaxInFlight, row \in table :
    ( /\ reqs[s].pc \in {"update.pg", "delete.pg"}
      /\ row.id = reqs[s].id
      /\ row.passwordHash \notin {NoHash, hashPassword(reqs[s].password)} )
    => UNCHANGED table

\* C2: an update or delete of a password-protected message whose password
\* does not hash to the stored passwordHash is answered 401, leaves the
\* store, the cache and the transcripts as they were and pushes nothing to
\* the channels.
C2_WrongPasswordChangesNothing ==
  [][WrongPasswordRefused /\ WrongPasswordWritesNothing]_vars

\* A payload of messages as a client may see it: no message carries a
\* passwordHash, and a private message carries no content
Sanitized(payload) ==
  \A i \in 1..Len(payload) :
    /\ "passwordHash" \notin DOMAIN payload[i]
    /\ payload[i].isPrivate => payload[i].content = ""

\* C3: in the database server every list answered by GET /api/messages and
\* every list written to a channel (the initial push and the broadcasts)
\* has no passwordHash on any message and blank content on every private
\* message.
C3_PayloadsSanitized ==
  variant = "db" =>
    /\ (resp.op = "list" => Sanitized(resp.body))
    /\ \A c \in Channels : Sanitized(chan[c].last)

\* A channel that holds a pushed list of two messages, one of them private,
\* while the last answer is a list read of the same two messages
C3_Witness ==
  /\ variant = "db"
  /\ resp.op = "list"
  /\ \E c \in Channels :
       /\ chan[c].st = "open"
       /\ Len(chan[c].last) = 2
       /\ \E i \in 1..2 : chan[c].last[i].isPrivate /\ chan[c].last[i].content = ""
       /\ \E i \in 1..2 : ~chan[c].last[i].isPrivate /\ chan[c].last[i].content # ""
       /\ resp.body = chan[c].last

\* C4: in the database server the message answered by create, like and
\* update carries no passwordHash, and the private message answered by
\* a request that carries no password (create's echo, like) has blank content.
C4_MutationResponsesSanitized ==
  (variant = "db" /\ resp.op \in {"create", "like", "update"} /\ resp.body # <<>>) =>
    /\ "passwordHash" \notin DOMAIN resp.body[1]
    /\ (resp.op \in {"create", "like"} /\ resp.body[1].isPrivate) =>
         resp.body[1].content = ""

\* What POST /api/messages/:id/content has to answer for the stored message
\* `row` and the password it carries
ContentOf(id, row, password) ==
  IF ~row.isPrivate \/ row.passwordHash = hashPassword(password)
  THEN Response("content", id, 200, <<[content |-> row.content]>>, {})
  ELSE Response("content", id, 401, <<>>, {})

\* C5: POST /api/messages/:id/content answers the content of a private
\* message only to the password that hashes to the stored passwordHash and
\* answers 401 without content to any other password; it answers the content
\* of a message that is not private to any password.
C5_ContentOnlyWithPassword ==
  [][\A s \in 1..MaxInFlight, row \in table :
       ( /\ reqs[s].op = "content"
         /\ DecidesOn(s, row)
         /\ row.isPrivate => row.passwordHash # NoHash )
       => /\ reqs'[s] = Idle
          /\ resp' = ContentOf(reqs[s].id, row, reqs[s].password)]_vars

\* A like of id, in whichever log-file server runs
LogLike(id) ==
  \/ PlainLike(id, LogInputs.likeCap)
  \/ FileLike(id, LogInputs.likeCap)
  \/ CachedLike(id, LogInputs.likeCap)

\* An update of id, and a delete of id, in whichever log-file server runs
LogUpdate(id, p, a, c) == FileUpdate(id, p, a, c) \/ CachedUpdate(id, p, a, c)
LogDelete(id, p) == FileDelete(id, p) \/ CachedDelete(id, p)

\* C6: in every server a successful like of id X answers message X itself,
\* its likes one more than before, wherever X stands in a store of two or
\* more messages.
C6_LikeAnswersTheLikedMessage ==
  [][/\ \A id \in Ids :
          ( /\ LogLike(id)
            /\ resp'.status = 200
            /\ Cardinality(Stored(id)) = 1 )
          => /\ resp'.body[1].id = id
             /\ \A i \in Stored(id) : resp'.body[1].likes = file[i].likes + 1
     /\ \A s \in 1..MaxInFlight :
          ( /\ reqs[s].op = "like"
            /\ reqs[s].phase = 2
            /\ reqs'[s] = Idle
            /\ resp'.status = 200 )
          => resp'.body[1].id = reqs[s].id]_vars

\* The stored message that a like of id counts on: the first of that id in
\* the array the handler searches (the cache, or the log read newest first)
LikeTarget(id) ==
  LET messages == IF variant = "cached" THEN messagesCache ELSE readMessagesFromFile
  IN messages[findIndex(messages, id)]

\* C7: a like of a stored id raises the likes of its message by one, and the
\* next like of the id counts on that same message; so N likes of the id, in
\* flight together and handled in any order with no edit or delete between
\* them, leave the message with N likes more.
C7_LikesAreAdditive ==
  [][/\ \A id \in Ids :
          (LogLike(id) /\ resp'.status = 200)
          => LikeTarget(id)' = [LikeTarget(id) EXCEPT !.likes = @ + 1]
     /\ \A s \in 1..MaxInFlight, row \in table :
          ( /\ reqs[s].pc = "like.pg"
            /\ reqs'[s].pc = "like.delAll"
            /\ row.id = reqs[s].id )
          => [row EXCEPT !.likes = @ + 1] \in table']_vars

\* A list in which no message is older than one that follows it
NewestFirst(list) ==
  \A i, j \in 1..Len(list) : i < j => list[i].timestamp >= list[j].timestamp

\* C8: in the cached, the uncached and the database server the list answered
\* by GET /api/messages and the list of every push to a channel is sorted
\* newest first by timestamp.
C8_ListsNewestFirst ==
  variant \in {"cached", "file", "db"} =>
    /\ (resp.op = "list" => NewestFirst(resp.body))
    /\ \A c \in Channels : NewestFirst(chan[c].last)

\* The orders of the messages of group g of a log in which no message is
\* newer than one that follows it
OldestFirst(log, g) ==
  LET ms == OfGroup(log, g) IN
  { l \in [1..Len(ms) -> 1..Len(ms)] :
      /\ \A i, j \in 1..Len(ms) : i # j => l[i] # l[j]
      /\ \A i, j \in 1..Len(ms) : i < j => ms[l[i]].timestamp <= ms[l[j]].timestamp }

\* C9: in the cached and the uncached server, once an update or a delete
\* has succeeded, the transcript of every group that has messages lists
\* exactly these messages, oldest first, as [author]: content lines.
C9_TranscriptsOldestFirst ==
  [][\A id \in Ids, p \in Passwords, a \in UpdateAuthors, c \in UpdateContents :
       ( /\ LogUpdate(id, p, a, c) \/ LogDelete(id, p)
         /\ resp'.status = 200 )
       => \A g \in Groups :
            OfGroup(file', g) # <<>> =>
              \E l \in OldestFirst(file', g) :
                txt'[g] = [i \in 1..Len(l) |-> TxtLine(OfGroup(file', g)[l[i]])]]_vars

\* C10: in the log-file servers, once a delete has succeeded, the transcript
\* of the group that lost the message has one line for each message of the
\* group that is left, each the line of such a message, and so no line when
\* none is left.
C10_TranscriptHoldsSurvivorsOnly ==
  [][\A id \in Ids, p \in Passwords :
       (LogDelete(id, p) /\ resp'.status = 200)
       => \A g \in Groups :
            Len(OfGroup(file', g)) < Len(OfGroup(file, g)) =>
              /\ Len(txt'[g]) = Len(OfGroup(file', g))
              /\ \A k \in 1..Len(txt'[g]) :
                   \E i \in 1..Len(file') :
                     file'[i].group = g /\ txt'[g][k] = TxtLine(file'[i])]_vars

\* C11: no two stored messages share an id, in the log-file servers and in
\* the database server alike: a create that carries the id of a stored
\* message stores nothing.
C11_IdsUnique ==
  /\ variant # "db" =>
       \A i, j \in 1..Len(file) : file[i].id = file[j].id => i = j
  /\ variant = "db" =>
       \A r, q \in table : r.id = q.id => r = q

\* The listed message l is the created message m
SameMessage(l, m) ==
  /\ l.id = m.id
  /\ l.author = m.author
  /\ l.group = m.group
  /\ l.content = m.content
  /\ l.timestamp = m.timestamp
  /\ l.likes = m.likes

\* The list `list` holds the message m once
ListedOnce(list, m) ==
  Cardinality({ i \in 1..Len(list) : SameMessage(list[i], m) }) = 1

\* C12: the list read that follows a successful create holds exactly one
\* message equal to the created one in id, author, group, content and
\* timestamp, with the likes the create carried.
C12_CreateThenListRoundTrip ==
  [][/\ ( /\ resp.op = "create"
          /\ resp.status = 201
          /\ PlainGetMessages \/ FileGetMessages \/ CachedGetMessages )
        => ListedOnce(resp'.body, resp.body[1])
     /\ \A s \in 1..MaxInFlight, row \in table :
          ( /\ resp.op = "create"
            /\ resp.status = 201
            /\ row.id = resp.id
            /\ reqs[s].op = "list"
            /\ reqs'[s] = Idle )
          => ListedOnce(resp'.body, row)]_vars

\* Every private message of the table has a passwordHash
PrivateHasHash == \A r \in table : r.isPrivate => r.passwordHash # NoHash

\* C13: in the database server every stored private message has a
\* passwordHash: a create that asks for a private message and carries no
\* password is answered 400 and stores nothing, and no step takes the
\* passwordHash or the privacy of a stored message away.
C13_PrivateMessagesHaveHash ==
  [][/\ PrivateHasHash'
     /\ \A b \in CreateBodies(OpsInputs) :
          (b.password = "" /\ DbCreate(b, TRUE, OpsInputs.inFlight))
          => resp'.status = 400 /\ UNCHANGED <<table, reqs>>
     /\ \A r \in table, q \in table' :
          q.id = r.id => q.passwordHash = r.passwordHash /\ q.isPrivate = r.isPrivate]_vars

\* A private message is stored and has been edited, and the last answer
\* refuses a create
C13_Witness ==
  /\ variant = "db"
  /\ \E r \in table : r.isPrivate /\ r.passwordHash # NoHash /\ r.author = "B"
  /\ resp.op = "create"
  /\ resp.status = 400

\* A create of the body b, in whichever server runs
AnyCreate(b, isPrivate) ==
  \/ PlainCreate(b.id, b.author, b.group, b.content, b.timestamp, b.likes)
  \/ FileCreate(b.id, b.author, b.group, b.content, b.timestamp, b.likes, b.password)
  \/ CachedCreate(b.id, b.author, b.group, b.content, b.timestamp, b.likes, b.password)
  \/ DbCreate(b, isPrivate, CreateInputs.inFlight)

\* C14: a create whose id, author, group or content is empty is answered 400
\* and leaves the log, the table, the caches, the transcripts, the channels
\* and the broadcast set as they were.
C14_InvalidCreateChangesNothing ==
  [][\A b \in CreateBodies(CreateInputs), isPrivate \in BOOLEAN :
       ( /\ b.id = "" \/ b.author = "" \/ b.group = "" \/ b.content = ""
         /\ AnyCreate(b, isPrivate) )
       => /\ resp' = Response("create", b.id, 400, <<>>, {})
          /\ UNCHANGED <<file, txt, messagesCache, sseClients, chan,
                         table, redisAll, redisMsg, reqs, notifications>>]_vars

\* The cached server has refused a create while it stores a message that an
\* open channel has been sent
C14_Witness ==
  /\ variant = "cached"
  /\ resp.op = "create"
  /\ resp.status = 400
  /\ file # <<>>
  /\ \E c \in Channels : chan[c].st = "open" /\ chan[c].last # <<>>

RECURSIVE SumLikes(_)
\* The likes of all the messages of a log, added up
SumLikes(log) == IF log = <<>> THEN 0 ELSE Head(log).likes + SumLikes(Tail(log))

\* C15: the likes of every stored message are a non-negative integer, 0
\* when the message is created and never less afterwards; only a like
\* changes them, and by exactly one.
C15_LikesStartAtZeroAndOnlyGrow ==
  [][/\ variant # "db" =>
          /\ \A i \in 1..Len(file') : file'[i].likes \in Nat
          /\ \A b \in CreateBodies(CreateInputs) :
               (AnyCreate(b, FALSE) /\ resp'.status = 201)
               => /\ file'[Len(file')].likes = 0
                  /\ SumLikes(file') = SumLikes(file)
          /\ \A id \in Ids :
               (LogLike(id) /\ resp'.status = 200)
               => SumLikes(file') = SumLikes(file) + 1
          /\ \A id \in Ids, p \in Passwords, a \in UpdateAuthors, c \in UpdateContents :
               (LogUpdate(id, p, a, c) /\ resp'.status = 200)
               => SumLikes(file') = SumLikes(file)
          /\ \A id \in Ids, p \in Passwords :
               (LogDelete(id, p) /\ resp'.status = 200)
               => \A j \in 1..Len(file') : \E i \in 1..Len(file) : file'[j] = file[i]
     /\ variant = "db" =>
          /\ \A q \in table' : q.likes \in Nat
          /\ \A q \in table' : (\A r \in table : r.id # q.id) => q.likes = 0
          /\ \A r \in table, q \in table' :
               r.id = q.id =>
                 \/ q.likes = r.likes
                 \/ /\ q.likes = r.likes + 1
                    /\ \E s \in 1..MaxInFlight :
                         reqs[s].pc = "like.pg" /\ reqs'[s].pc = "like.delAll"]_vars

\* The message `new` is the message `old` but for its author and content
EditOf(old, new) ==
  [new EXCEPT !.author = old.author, !.content = old.content] = old

\* C16: a successful update changes the author and the content of the message
\* of its id and nothing else: the other fields of that message, the other
\* messages and (log-file servers) the order of the lines of the log stay.
C16_UpdateChangesOnlyAuthorAndContent ==
  [][/\ \A id \in Ids, p \in Passwords, a \in UpdateAuthors, c \in UpdateContents :
          (LogUpdate(id, p, a, c) /\ resp'.status = 200)
          => /\ Len(file') = Len(file)
             /\ \A i \in 1..Len(file) :
                  \/ file'[i] = file[i]
                  \/ file[i].id = id /\ EditOf(file[i], file'[i])
             /\ Cardinality({ i \in 1..Len(file) : file'[i] # file[i] }) <= 1
     /\ \A s \in 1..MaxInFlight :
          (reqs[s].pc = "update.pg" /\ reqs'[s].pc = "update.delAll")
          => /\ Cardinality(table') = Cardinality(table)
             /\ \A r \in table :
                  \/ r \in table'
                  \/ r.id = reqs[s].id /\ \E q \in table' : EditOf(r, q)]_vars

\* No row of id is in the table, and no delete of id is between its DELETE
\* and its response: the message was never stored, or its delete is over
Gone(id) ==
  /\ RowById(id) = <<>>
  /\ \A t \in 1..MaxInFlight :
       ~(reqs[t].op = "delete" /\ reqs[t].id = id
           /\ reqs[t].pc \in {"delete.delAll", "delete.delMsg"})

\* The handler of slot s answers in this step
Answers(s) == reqs[s] # Idle /\ reqs'[s] = Idle /\ resp' # resp

\* C17: a delete is final.  In the log-file servers a delete of X that
\* answers success leaves no message of id X in the log.  In the database
\* server, once the row of X is gone and its delete has answered, a like,
\* verify, content, update or delete of X that answers, answers 404, and no
\* list that is answered or pushed holds X; this includes the requests that
\* read X while the delete ran.
C17_DeleteIsFinal ==
  [][/\ \A id \in Ids, p \in Passwords :
          (LogDelete(id, p) /\ resp'.status = 200) => Stored(id)' = {}
     /\ \A s \in 1..MaxInFlight :
          (Answers(s) /\ Gone(reqs[s].id)
             /\ reqs[s].op \in {"like", "verify", "content", "update", "delete"})
          => resp'.status = 404
     /\ \A s \in 1..MaxInFlight, id \in Ids :
          (Answers(s) /\ Gone(id) /\ reqs[s].op = "list")
          => \A i \in 1..Len(resp'.body) : resp'.body[i].id # id
     /\ \A c \in Channels, id \in Ids :
          (variant = "db" /\ Gone(id) /\ chan'[c].last # chan[c].last)
          => \A i \in 1..Len(chan'[c].last) : chan'[c].last[i].id # id]_vars

\* The last list channel c received holds a message of id
Received(c, id) == \E i \in 1..Len(chan[c].last) : chan[c].last[i].id = id

\* Channel c is in the broadcast set with its connection open, and the last
\* request answered is a create of id that succeeded
CreatedWhileOpen(c, id) ==
  /\ chan[c].st = "open" /\ c \in sseClients
  /\ resp.op = "create" /\ resp.id = id /\ resp.status = 201

\* C18: a channel that is open when a create succeeds receives a list that
\* holds the new message, unless its client goes away first: in the cached
\* log-file server the create's own step writes it, before the response; in
\* the database server it comes in time, with no further request.
C18_OpenChannelReceivesCreate ==
  /\ [][\A c \in Channels, b \in CreateBodies(CreateInputs) :
          (/\ CachedCreate(b.id, b.author, b.group, b.content, b.timestamp, b.likes, b.password)
           /\ resp'.status = 201 /\ c \in sseClients)
          => \E i \in 1..Len(chan'[c].last) : chan'[c].last[i].id = b.id]_vars
  /\ \A c \in Channels, id \in Ids :
       CreatedWhileOpen(c, id) ~> (Received(c, id) \/ chan[c].st # "open")

\* No request or notification handler of the database server is in flight
\* and no notification waits for the listener
Quiescent ==
  /\ \A s \in 1..MaxInFlight : reqs[s] = Idle
  /\ notifications = 0

\* C19: in the database server, once nothing is in flight, the last list
\* every open channel of the broadcast set received is the sanitized
\* contents of the table, newest first.
C19_ChannelsConvergeToTable ==
  (variant = "db" /\ Quiescent)
  => \A c \in sseClients :
       chan[c].st = "open"
       => \E l \in RowsNewestFirst(table) : chan[c].last = dbSanitizedMessages(l)

\* The events handler of channel c is still in flight
Connecting(c) == \E s \in 1..MaxInFlight : reqs[s].op = "events" /\ reqs[s].id = c

\* C20: a channel whose client has gone away is not in the broadcast set
\* once its events handler has finished, so nothing is written to it any
\* more.
C20_ClosedChannelsLeaveTheSet ==
  \A c \in Channels :
    (chan[c].st = "closed" /\ ~Connecting(c)) => c \notin sseClients

\* The handler of slot s takes a step
Steps(s) == reqs'[s] # reqs[s]

\* The handler of slot s, its statement done, ends its cache invalidation in
\* this step: it goes on to its response (create, delete) or to the read of
\* its response (like, update)
EndsInvalidation(s) ==
  /\ reqs[s].pc \in {"create.del", "like.delMsg", "update.delMsg", "delete.delMsg"}
  /\ Steps(s)

\* C21: in the database server a create, like, update or delete that has
\* changed the table answers only after its invalidation; the invalidation
\* removes messages:all, and when it ends the entry message:{id} of the
\* affected message is gone.
C21_MutationsInvalidateBothEntries ==
  [][\A s \in 1..MaxInFlight :
       /\ (reqs[s].pc \in {"create.pg", "like.pg", "update.pg", "delete.pg"}
             /\ Steps(s) /\ table' # table)
          => reqs'[s].pc \in {"create.del", "like.delAll", "update.delAll", "delete.delAll"}
       /\ (reqs[s].pc \in {"create.del", "like.delAll", "update.delAll", "delete.delAll"}
             /\ Steps(s))
          => redisAll' = <<>>
       /\ EndsInvalidation(s) => redisMsg'[reqs[s].id] = <<>>]_vars

\* A persistence call of the handler of this step throws
PersistenceFails ==
  \/ \E b \in CreateBodies(FailInputs), failing \in {"appendMessage", "saveToGroupTxt"} :
       CachedCreateFails(b.id, b.author, b.group, b.content, b.timestamp, b.likes,
                         b.password, failing)
  \/ \E id \in Ids : CachedLikeFails(id, FailInputs.likeCap)
  \/ \E id \in Ids, p \in Passwords, failing \in {"updateMessages", "rebuildGroupTxtFiles"} :
       CachedDeleteFails(id, p, failing)
  \/ \E id \in Ids, p \in Passwords, a \in UpdateAuthors, c \in UpdateContents,
        failing \in {"updateMessages", "rebuildGroupTxtFiles"} :
       FileUpdateFails(id, p, a, c, failing)

\* C22: a mutation whose persistence call fails answers an error and leaves
\* the log, the in-memory cache and every transcript as they were.
C22_FailedMutationsChangeNothing ==
  [][PersistenceFails => (resp'.status = 500 /\ UNCHANGED <<file, messagesCache, txt>>)]_vars

\* C23: an export with a secret other than the download secret answers
\* 401, and an export with the right secret answers 404 when the store
\* holds no message (the log of the cached server, the table of the
\* database server, when the handler looks for the groups).
C23_ExportRefusals ==
  [][/\ \A p \in DownloadPasswords \ {""} :
          (CachedDownload(p) \/ DbDownload(p, MaxInFlight))
          => /\ p # DOWNLOAD_PASSWORD => resp'.status = 401
             /\ (p = DOWNLOAD_PASSWORD /\ variant = "cached" /\ file = <<>>)
                => resp'.status = 404
     /\ \A s \in 1..MaxInFlight :
          (DbDlGroups(s) /\ table = {}) => resp'.status = 404]_vars

\* content is a transcript of the messages msgs: their lines `[author]:
\* content`, one per message, oldest first
IsTranscriptOf(content, msgs) ==
  /\ Len(content) = Len(msgs)
  /\ \E f \in [1..Len(msgs) -> 1..Len(msgs)] :
       /\ \A i, j \in 1..Len(msgs) : i # j => f[i] # f[j]
       /\ \A i, j \in 1..Len(msgs) : i < j => msgs[f[i]].timestamp <= msgs[f[j]].timestamp
       /\ \A i \in 1..Len(msgs) : content[i] = TxtLine(msgs[f[i]])

\* archive has one entry for each group that has a message, in the order of
\* the groups
EntryPerGroup(archive, hasMessage(_)) ==
  LET groups == SelectSeq(GroupOrder, hasMessage) IN
  /\ Len(archive) = Len(groups)
  /\ \A i \in 1..Len(groups) : archive[i].name = groups[i]

\* C24: the archive of a successful export has exactly one entry for each
\* group that has a message in the store, and every entry is the transcript
\* of that group's messages as the store holds them: in the cached
\* log-file server and, with its requests one at a time, in the database
\* server.
C24_ExportIsRegenerated ==
  [][/\ (CachedDownload(DOWNLOAD_PASSWORD) /\ resp'.status = 200)
        => /\ EntryPerGroup(resp'.body, LAMBDA g : OfGroup(file, g) # <<>>)
           /\ \A i \in 1..Len(resp'.body) :
                IsTranscriptOf(resp'.body[i].content, OfGroup(file, resp'.body[i].name))
     /\ \A s \in 1..MaxInFlight :
          (DbDlTxt(s) /\ Answers(s))
          => /\ EntryPerGroup(resp'.body, LAMBDA g : \E r \in table : r.group = g)
             /\ \A i \in 1..Len(resp'.body) :
                  resp'.body[i].content \in generateGroupTxt(resp'.body[i].name)]_vars

\* C25: when the transcript of a group cannot be generated during the
\* database server's export, the client gets an error and no byte of the
\* archive, whatever entries the handler had appended before.
C25_FailedExportSendsNoArchive ==
  [][\A s \in 1..MaxInFlight :
       DbDlTxtFails(s) => (resp'.status = 500 /\ resp'.body = <<>>)]_vars

\* r is the answer verifyPassword owes for password p when `stored` are the
\* stored messages of the id asked for: 404 without one, 403 for one without
\* a hash, and otherwise whether p hashes to the stored hash
VerifyAnswer(stored, p, r) ==
  IF stored = {} THEN r.status = 404
  ELSE \E m \in stored :
         IF m.passwordHash = NoHash THEN r.status = 403
         ELSE /\ r.status = 200
              /\ r.body = <<[valid |-> (hashPassword(p) = m.passwordHash)]>>

C27_StoredGroupsAreGroupIds ==
  /\ \A i \in 1..Len(file) : file[i].group \in GroupId
  /\ \A r \in table : r.group \in GroupId

\* C28: while the subscription has not been cancelled, every stream error,
\* the first as much as any later one, is followed by a new connection
\* attempt.
C28_SubscriptionReconnects ==
  \A n \in 1..MaxErrors :
    (chan["sub"].errors = n /\ chan["sub"].eventSource = "none" /\ ~chan["sub"].cancelled)
    ~> (chan["sub"].eventSource # "none" \/ chan["sub"].cancelled)

\* After its last stream error the subscription is connected again and has
\* received a list with a message
C28_Witness ==
  /\ chan["sub"].errors = MaxErrors
  /\ chan["sub"].eventSource = "open"
  /\ ~chan["sub"].cancelled
  /\ chan[SubChannel].st = "open" /\ chan[SubChannel].last # <<>>

\* C29: in the cached log-file server the in-memory cache is what a fresh
\* read of the log file gives: the same messages, newest first.
C29_CacheEqualsFreshRead ==
  variant = "cached" => messagesCache = readMessagesFromFile

\* C30: in the database server, once nothing is in flight, the list under
\* messages:all, when present, is the table newest first, and the message
\* under message:{id}, when present, is the row of that id.
C30_CacheEntriesEqualTable ==
  (variant = "db" /\ Quiescent)
  => /\ redisAll # <<>> => redisAll[1] \in RowsNewestFirst(table)
     /\ \A id \in Ids : redisMsg[id] # <<>> => redisMsg[id] = RowById(id)

\* The message m with the supplied fields overwritten ("" is an omitted
\* field)
Overwritten(m, a, c) ==
  [m EXCEPT !.author = IF a # "" THEN a ELSE @,
            !.content = IF c # "" THEN c ELSE @]

\* C31: an update whose password matched overwrites the supplied fields
\* and keeps the others; with neither field supplied it succeeds and
\* changes nothing.  Log-file servers: the answer of a successful update is
\* the stored message overwritten.  Database server: the UPDATE of a
\* handler whose checks passed turns the row into the row overwritten, and
\* the handler goes on to its success path.
C31_UpdateOverwritesSuppliedFields ==
  [][/\ \A id \in Ids, p \in Passwords, a \in UpdateAuthors, c \in UpdateContents :
          (LogUpdate(id, p, a, c) /\ resp'.status = 200)
          => \E i \in Stored(id) : resp'.body = <<StripHash(Overwritten(file[i], a, c))>>
     /\ \A s \in 1..MaxInFlight :
          (reqs[s].pc = "update.pg" /\ Steps(s) /\ RowById(reqs[s].id) # <<>>)
          => /\ reqs'[s].pc = "update.delAll"
             /\ table' = (table \ {RowById(reqs[s].id)[1]})
                           \cup {Overwritten(RowById(reqs[s].id)[1], reqs[s].author,
                                             reqs[s].content)}]_vars

\* The transcripts that regeneration gives from the log: for each group the
\* lines of its messages in the order of the log, and no line for a group
\* without messages
Regenerated(log) == [g \in Groups |-> Map(OfGroup(log, g), TxtLine)]

\* C32: in the uncached and the cached log-file server, after a create or a
\* like that succeeded, every group's transcript is the one regenerated
\* from the log.
C32_TranscriptsFollowCreateAndLike ==
  [][/\ \A b \in CreateBodies(LogInputs) :
          ((\/ FileCreate(b.id, b.author, b.group, b.content, b.timestamp, b.likes, b.password)
            \/ CachedCreate(b.id, b.author, b.group, b.content, b.timestamp, b.likes,
                            b.password))
           /\ resp'.status = 201)
          => txt' = Regenerated(file')
     /\ \A id \in Ids :
          ((FileLike(id, LogInputs.likeCap) \/ CachedLike(id, LogInputs.likeCap))
           /\ resp'.status = 200)
          => txt' = Regenerated(file')]_vars

\* C33: in the polling subscription, whenever the list the callback was
\* last given differs from the server's list, the callback is in time
\* called with the server's list, unless the subscription is cancelled.
C33_PollingShowsEveryMutation ==
  (chan["sub"].shown # sanitizedMessages(readMessagesFromFile) /\ ~chan["sub"].cancelled)
  ~> (chan["sub"].shown = sanitizedMessages(readMessagesFromFile) \/ chan["sub"].cancelled)

\* The outcome the checks of update and delete owe for password p when
\* `stored` are the stored messages of the id: 400 without a password, 404
\* without a message, 403 for a message without a hash, 401 for a hash that
\* p does not match, each with the store untouched; otherwise none of the
\* four
ChecksInOrder(stored, p, status, untouched) ==
  IF p = "" THEN status = 400 /\ untouched
  ELSE IF stored = {} THEN status = 404 /\ untouched
  ELSE \E m \in stored :
         IF m.passwordHash = NoHash THEN status = 403 /\ untouched
         ELSE IF hashPassword(p) # m.passwordHash THEN status = 401 /\ untouched
         ELSE status \notin {400, 404, 403, 401}

C35_OneStoredMessagePerAdd ==
  /\ \A id \in Ids : Cardinality(Stored(id)) <= 1
  /\ (/\ variant = "db"
      /\ chan["fetch"].call = "addMessage"
      /\ chan["fetch"].pc = "returned"
      /\ chan["fetch"].result = "failed")
     => RowById(chan["fetch"].body.id) = <<>>

\* C35, the log-file servers alone
C35_NoSecondCopyInLog ==
  variant \in {"file", "cached"} => \A id \in Ids : Cardinality(Stored(id)) <= 1

\* C35, the database server alone
C35_StoredIsNotReportedFailed ==
  (/\ variant = "db"
   /\ chan["fetch"].call = "addMessage"
   /\ chan["fetch"].pc = "returned"
   /\ chan["fetch"].result = "failed")
  => RowById(chan["fetch"].body.id) = <<>>

\* fetchWithRetry is running / has returned or thrown
Fetching == chan["fetch"].pc \in {"loop", "fetch", "wait"}
Settled == chan["fetch"].pc \in {"returned", "thrown"}

\* C36: fetchWithRetry always terminates, after at most maxRetries calls of
\* fetch.  It returns the first response it gets, an HTTP error included,
\* without another attempt; it tries again only after fetch has thrown (one
\* wait per throw); and after maxRetries throws in a row it throws, without
\* waiting once more.
C36_FetchWithRetryTerminates ==
  /\ [](LET f == chan["fetch"] IN
        /\ f.attempts <= f.maxRetries
        /\ f.pc = "fetch" => f.waits = f.attempts - 1
        /\ f.pc \in {"loop", "wait"} => f.waits = f.attempts
        /\ f.pc = "returned" => /\ f.status = resp.status
                                /\ f.waits = f.attempts - 1
        /\ f.pc = "thrown" => /\ f.attempts = f.maxRetries
                              /\ f.waits = f.maxRetries - 1)
  /\ [][/\ FetchResolves => /\ chan'["fetch"].pc = "returned"
                            /\ chan'["fetch"].status = resp.status
        /\ Settled => chan'["fetch"].attempts <= chan["fetch"].attempts
        /\ chan'["fetch"].attempts > chan["fetch"].attempts
           => /\ chan'["fetch"].attempts = chan["fetch"].attempts + 1
              /\ chan["fetch"].waits = chan["fetch"].attempts]_vars
  /\ (Fetching ~> Settled)

\* getMessages' fetchWithRetry has thrown after five throws of fetch and
\* four waits
C36_Witness ==
  /\ chan["fetch"].pc = "thrown"
  /\ chan["fetch"].call = "getMessages"
  /\ chan["fetch"].attempts = DefaultRetries
  /\ chan["fetch"].waits = DefaultRetries - 1

\* C37: a subscription of the SSE client has at most one EventSource at a
\* time: none is made while one exists and no reconnect timer is pending
\* beside one, and the server holds the subscription's connection only while
\* the client's EventSource is open.  Once the cleanup function has run
\* there is no EventSource and no pending timer, and from then on none is
\* made and nothing reaches the callback: the subscription and its
\* connection stay as they are.
C37_UnsubscribeEndsTheSubscription ==
  /\ [](/\ ~(chan["sub"].eventSource # "none" /\ chan["sub"].reconnectTimeout)
        /\ chan[SubChannel].st = "open" <=> chan["sub"].eventSource = "open"
        /\ SubChannel \in sseClients <=> chan["sub"].eventSource = "open"
        /\ chan["sub"].cancelled => /\ chan["sub"].eventSource = "none"
                                    /\ ~chan["sub"].reconnectTimeout)
  /\ [][/\ chan'["sub"].eventSource = "connecting" /\ chan'["sub"] # chan["sub"]
           => chan["sub"].eventSource = "none"
        /\ chan["sub"].cancelled => chan' = chan]_vars

\* The cleanup function has run on a subscription that had been connected,
\* and a message created since has been pushed to nobody
C37_Witness ==
  /\ chan["sub"].cancelled
  /\ chan[SubChannel].st = "closed"
  /\ resp.op = "create" /\ resp.status = 201 /\ resp.pushed = {}
  /\ messagesCache # <<>>

\* C38: once the function that the mock backend's subscribe returned has
\* been called, the callback is never called again, neither for a
\* 'local-message-update' event (an add or a like in this tab) nor for a
\* 'storage' event (an add or a like in another tab).
C38_NoCallbackAfterUnsubscribe ==
  [][chan["sub"].cancelled => chan'["sub"].calls = chan["sub"].calls]_vars

\* C38, the events of this tab alone
C38_NoLocalCallbackAfterUnsubscribe ==
  [][(/\ chan["sub"].cancelled
      /\ \/ \E message \in MockMessages : MockAddMessage(message)
         \/ \E id \in MockInputs.ids : MockLikeMessage(id, MockInputs.likeCap))
     => chan'["sub"].calls = chan["sub"].calls]_vars

\* C39: the migration is idempotent and non-destructive.  A turn of its
\* loop removes no row and leaves every row there is as it is, so a row
\* whose id is in the table already (liked or edited since, say) is not
\* replaced by the log's copy; and a second run over the same log changes
\* nothing in the table.
C39_MigrationIsIdempotent ==
  [][MigrateInsert
     => /\ table \subseteq table'
        /\ \A id \in Ids : RowById(id) # <<>> => RowById(id)' = RowById(id)
        /\ chan["migrate"].runs >= 2 => table' = table]_vars

\* The second run has ended, having met the row of m1 that the first run
\* inserted and that has been liked and edited since
C39_Witness ==
  /\ chan["migrate"].runs = 2
  /\ chan["migrate"].pc = "done"
  /\ \E i \in 1..Len(file) : file[i].id = "m1" /\ file[i].likes = 0 /\ file[i].author = "A"
  /\ RowById("m1") # <<>>
  /\ RowById("m1")[1].likes = 1
  /\ RowById("m1")[1].author = "B"
====
